---------------------------- MODULE Spec2Model ----------------------------
(***************************************************************************)
(* Model of meraki-api-exporter.py: the fetchers, the classification       *)
(* heuristics, and get_usage (thread fan-out, join, multi-pass merge).     *)
(*                                                                         *)
(* Python values are modelled as follows.                                  *)
(*   dict        a function whose domain is the set of keys present        *)
(*   list        a sequence                                                *)
(*   str         a string, or a sequence of one-character strings where    *)
(*               the code looks inside the text (lower, upper, in, split)  *)
(*   None / key absent   the key is not in the domain of the dict          *)
(* Where the source file holds unresolved merge-conflict blocks, the HEAD  *)
(* side is the one modelled.                                               *)
(***************************************************************************)
EXTENDS Integers, Sequences, FiniteSets, TLC

(***************************************************************************)
(* Bounds of the explored inputs.                                          *)
(***************************************************************************)
\* records in the primary inventory response
MaxInv == 2
\* samples in a timeSeries / intervals list
MaxSeries == 2
\* the largest core count of a direct call of cpu_load_calculator
MaxCores == 4

(***************************************************************************)
(* dict and list helpers                                                   *)
(***************************************************************************)
EmptyDict == [k \in {} |-> TRUE]

Has(d, k) == k \in DOMAIN d

\* d.get(k, dflt)
Get(d, k, dflt) == IF k \in DOMAIN d THEN d[k] ELSE dflt

\* d[k] = v
Put(d, k, v) == [x \in (DOMAIN d) \cup {k} |-> IF x = k THEN v ELSE d[x]]

\* d.update(e)
Update(d, e) == [x \in (DOMAIN d) \cup (DOMAIN e) |-> IF x \in DOMAIN e THEN e[x] ELSE d[x]]

\* seq[-1]
Last(s) == s[Len(s)]

\* A str that sits where the code expects a dict (a key of an envelope that
\* list.extend() iterated over) is kept apart from dicts by this wrapper.
StrItem(s) == [str__ |-> s]
IsStr(x) == "str__" \in DOMAIN x

(***************************************************************************)
(* Text as sequences of characters: str.lower, str.upper, `in`, replace,   *)
(* split.                                                                  *)
(***************************************************************************)
UpperLetters == <<"A","B","C","D","E","F","G","H","I","J","K","L","M",
                  "N","O","P","Q","R","S","T","U","V","W","X","Y","Z">>
LowerLetters == <<"a","b","c","d","e","f","g","h","i","j","k","l","m",
                  "n","o","p","q","r","s","t","u","v","w","x","y","z">>

LowerChar(c) ==
    IF \E i \in DOMAIN UpperLetters : UpperLetters[i] = c
    THEN LowerLetters[CHOOSE i \in DOMAIN UpperLetters : UpperLetters[i] = c]
    ELSE c

UpperChar(c) ==
    IF \E i \in DOMAIN LowerLetters : LowerLetters[i] = c
    THEN UpperLetters[CHOOSE i \in DOMAIN LowerLetters : LowerLetters[i] = c]
    ELSE c

\* text.lower()
Lower(t) == [i \in DOMAIN t |-> LowerChar(t[i])]
\* text.upper()
Upper(t) == [i \in DOMAIN t |-> UpperChar(t[i])]
\* text.replace(' ', '_')
SpaceToUnderscore(t) == [i \in DOMAIN t |-> IF t[i] = " " THEN "_" ELSE t[i]]

\* needle in hay
Contains(hay, needle) ==
    \E i \in 0..(Len(hay) - Len(needle)) : SubSeq(hay, i + 1, i + Len(needle)) = needle

\* the texts the code compares against
TxtConnected == <<"c","o","n","n","e","c","t","e","d">>
TxtMeraki == <<"M","E","R","A","K","I">>
TxtPlatform == <<"p","l","a","t","f","o","r","m">>
TxtSystemName == <<"s","y","s","t","e","m","_","n","a","m","e">>
TxtSystemDescription ==
    <<"s","y","s","t","e","m","_","d","e","s","c","r","i","p","t","i","o","n">>
TxtNA == <<"N","/","A">>
TxtSeparator == <<" ","-"," ">>

(***************************************************************************)
(* is_uplink_port, is_ap_device (lines 59-133)                             *)
(*   tag map        serial -> (portId -> set of tags)                      *)
(*   discovery map  serial -> (portId -> [device_type, device_name])       *)
(*   status map     serial -> (portId -> status text)                      *)
(* A map argument left at its default None is the value NoneMap.           *)
(***************************************************************************)
NoneMap == [None__ |-> TRUE]
IsNone(m) == "None__" \in DOMAIN m

TypeMS == <<"M","S">>
TypeMX == <<"M","X">>
TypeMR == <<"M","R">>

\* lines 85-88
is_tagged_uplink(port_id, serial, port_tags_map) ==
    /\ ~IsNone(port_tags_map)
    /\ serial # ""
    /\ serial \in DOMAIN port_tags_map
    /\ "uplink" \in Get(port_tags_map[serial], port_id, {})

\* lines 91-95
is_discovered_uplink(port_id, serial, port_discovery_map) ==
    /\ ~IsNone(port_discovery_map)
    /\ serial # ""
    /\ serial \in DOMAIN port_discovery_map
    /\ LET port_info == Get(port_discovery_map[serial], port_id, EmptyDict)
       IN  /\ Has(port_info, "device_type")
           /\ port_info["device_type"] \in {TypeMS, TypeMX}

\* lines 98-101
has_status_connected(port_id, serial, port_statuses_map) ==
    /\ ~IsNone(port_statuses_map)
    /\ serial # ""
    /\ serial \in DOMAIN port_statuses_map
    /\ Lower(Get(port_statuses_map[serial], port_id, <<>>)) = TxtConnected

\* is_uplink_port with discovery evidence honoured only on a connected port
is_uplink_port_needs_status(port_id, serial, port_tags_map, port_discovery_map, port_statuses_map) ==
    /\ ~(IsNone(port_tags_map) /\ IsNone(port_discovery_map))
    /\ has_status_connected(port_id, serial, port_statuses_map)
    /\ \/ is_discovered_uplink(port_id, serial, port_discovery_map)
       \/ is_tagged_uplink(port_id, serial, port_tags_map)

\* is_uplink_port with the tag alone deciding, whatever the port status
is_uplink_port_tag_only(port_id, serial, port_tags_map, port_discovery_map, port_statuses_map) ==
    /\ ~(IsNone(port_tags_map) /\ IsNone(port_discovery_map))
    /\ \/ is_discovered_uplink(port_id, serial, port_discovery_map)
       \/ is_tagged_uplink(port_id, serial, port_tags_map)

is_uplink_port(port_id, serial, port_tags_map, port_discovery_map, port_statuses_map) ==
    IF IsNone(port_tags_map) /\ IsNone(port_discovery_map)
    THEN FALSE
    ELSE IF is_discovered_uplink(port_id, serial, port_discovery_map)
         THEN TRUE
         ELSE IF /\ is_tagged_uplink(port_id, serial, port_tags_map)
                 /\ has_status_connected(port_id, serial, port_statuses_map)
              THEN TRUE
              ELSE FALSE

\* is_ap_device taking any discovered neighbor for an access point
is_ap_device_any_type(port_id, serial, port_discovery_map) ==
    IF /\ ~IsNone(port_discovery_map)
       /\ serial # ""
       /\ serial \in DOMAIN port_discovery_map
       /\ port_id \in DOMAIN port_discovery_map[serial]
    THEN [is_ap |-> TRUE,
          name |-> Get(port_discovery_map[serial][port_id], "device_name", TxtNA)]
    ELSE [is_ap |-> FALSE, name |-> <<>>]

\* returns [is_ap, name]; name is <<>> for None
is_ap_device(port_id, serial, port_discovery_map) ==
    IF /\ ~IsNone(port_discovery_map)
       /\ port_discovery_map # EmptyDict
       /\ serial # ""
       /\ serial \in DOMAIN port_discovery_map
       /\ LET port_info == Get(port_discovery_map[serial], port_id, EmptyDict)
          IN  Has(port_info, "device_type") /\ port_info["device_type"] = TypeMR
    THEN [is_ap |-> TRUE,
          name |-> Get(port_discovery_map[serial][port_id], "device_name", TxtNA)]
    ELSE [is_ap |-> FALSE, name |-> <<>>]

(***************************************************************************)
(* cpu_load_calculator (lines 423-460).  core_count is <<>> for None and   *)
(* <<n>> for the integer n.  The percentage, a float rounded to 2          *)
(* decimals, is carried as an integer number of hundredths of a percent.   *)
(* `core_count <= 0` on None raises TypeError.                             *)
(* The quotient load_value * 2 * 10000 / (65536 * core_count * 3) is taken  *)
(* with numerator and denominator divided by 32, which leaves its value    *)
(* unchanged and keeps the products within 32-bit integers.                *)
(***************************************************************************)
normalization_factor == 65536
\* per_cpu_load_cap = 1.5 = per_cpu_load_cap_num / per_cpu_load_cap_den
per_cpu_load_cap_num == 3
per_cpu_load_cap_den == 2

\* round(num / den), den > 0, ties to even
RoundDiv(num, den) ==
    LET q == num \div den
        r == num - q * den
    IN  IF 2 * r > den THEN q + 1
        ELSE IF 2 * r < den THEN q
        ELSE IF q % 2 = 0 THEN q ELSE q + 1

\* cpu_load_calculator without the cap on the per-CPU load
cpu_load_calculator_uncapped(core_count, load_value) ==
    IF core_count = <<>>
    THEN [raised |-> TRUE, value |-> 0]
    ELSE IF core_count[1] <= 0
    THEN [raised |-> FALSE, value |-> 0]
    ELSE [raised |-> FALSE,
          value |-> RoundDiv(load_value * ((per_cpu_load_cap_den * 10000) \div 32),
                             (normalization_factor \div 32) * core_count[1]
                               * per_cpu_load_cap_num)]

cpu_load_calculator(core_count, load_value) ==
    IF core_count = <<>>
    THEN [raised |-> TRUE, value |-> 0]
    ELSE IF core_count[1] <= 0
    THEN [raised |-> FALSE, value |-> 0]
    ELSE LET cores == core_count[1]
             \* per_cpu_load = load_value / normalization_factor / core_count
             \* clamped when per_cpu_load > per_cpu_load_cap
             clamped == load_value * per_cpu_load_cap_den
                          > per_cpu_load_cap_num * normalization_factor * cores
         IN  [raised |-> FALSE,
              value |-> IF clamped THEN 10000
                        ELSE RoundDiv(load_value * ((per_cpu_load_cap_den * 10000) \div 32),
                                      (normalization_factor \div 32) * cores
                                        * per_cpu_load_cap_num)]

(***************************************************************************)
(* parse_discovery_info, is_meraki_device, extract_device_name             *)
(* (lines 539-603, 656-670)                                                *)
(***************************************************************************)
RECURSIVE parse_discovery_from(_, _, _)
parse_discovery_from(info_list, i, result) ==
    IF i > Len(info_list) THEN result
    ELSE LET item == info_list[i]
             name == SpaceToUnderscore(Lower(Get(item, "name", <<>>)))
             value == Get(item, "value", <<>>)
         IN  parse_discovery_from(info_list, i + 1, Put(result, name, value))

parse_discovery_info(info_list) == parse_discovery_from(info_list, 1, EmptyDict)

meraki_prefixes == << <<"M","R">>, <<"M","S">>, <<"M","X">>, <<"M","V">>, <<"M","G">>,
                      <<"M","C">>, <<"M","V","2">>, <<"M","T">> >>

\* the first prefix, in list order, that occurs in text
HasPrefixIn(text) == \E i \in DOMAIN meraki_prefixes : Contains(text, meraki_prefixes[i])
FirstPrefixIn(text) ==
    meraki_prefixes[CHOOSE i \in DOMAIN meraki_prefixes :
                      /\ Contains(text, meraki_prefixes[i])
                      /\ \A j \in 1..(i - 1) : ~Contains(text, meraki_prefixes[j])]

\* returns [is_meraki, device_type]
is_meraki_device(cdp_list, lldp_list) ==
    LET cdp_info == parse_discovery_info(cdp_list)
        platform == Upper(Get(cdp_info, TxtPlatform, <<>>))
        lldp_info == parse_discovery_info(lldp_list)
        combined_text == Upper(Get(lldp_info, TxtSystemName, <<>>) \o <<" ">>
                               \o Get(lldp_info, TxtSystemDescription, <<>>))
    IN  IF cdp_info # EmptyDict /\ HasPrefixIn(platform)
        THEN [is_meraki |-> TRUE, device_type |-> FirstPrefixIn(platform)]
        ELSE IF /\ lldp_info # EmptyDict
                /\ Contains(combined_text, TxtMeraki)
                /\ HasPrefixIn(combined_text)
        THEN [is_meraki |-> TRUE, device_type |-> FirstPrefixIn(combined_text)]
        ELSE [is_meraki |-> FALSE, device_type |-> <<>>]

\* system_name.split(' - ')[-1]: what follows the last separator found by a
\* left-to-right scan for non-overlapping separators
RECURSIVE LastPart(_)
LastPart(t) ==
    IF ~Contains(t, TxtSeparator) THEN t
    ELSE LET i == CHOOSE k \in 0..(Len(t) - 3) :
                    /\ SubSeq(t, k + 1, k + 3) = TxtSeparator
                    /\ \A m \in 0..(k - 1) : SubSeq(t, m + 1, m + 3) # TxtSeparator
         IN  LastPart(SubSeq(t, i + 4, Len(t)))

extract_device_name(system_name) ==
    IF system_name = <<>> \/ system_name = TxtNA THEN TxtNA ELSE LastPart(system_name)

(***************************************************************************)
(* Upstream responses.  A response is a record with a field kind:          *)
(*   "raise"     the API call raises                                       *)
(*   "bare"      a bare list, in the field items                           *)
(*   "envelope"  a dict {'items': [...], 'meta': ...}, the list in items   *)
(*   "other"     a dict without 'items' (here {'errors': ...})             *)
(* getOrganization answers "raise" or "dict" (the dict in the field value).*)
(***************************************************************************)
Raises(resp) == resp.kind = "raise"

\* what list.extend(response) appends: the items of a list, the keys of a dict
ExtendList(resp) ==
    IF resp.kind = "bare" THEN resp.items
    ELSE IF resp.kind = "envelope" THEN <<StrItem("items"), StrItem("meta")>>
    ELSE <<StrItem("errors")>>

\* `response['items'] if isinstance(response, dict) and 'items' in response
\*  else response`, as the list the following for-loop iterates over
Normalize(resp) ==
    IF resp.kind \in {"bare", "envelope"} THEN resp.items ELSE <<StrItem("errors")>>

Done(slot) == [slot |-> slot, ok |-> TRUE]
Failed(slot) == [slot |-> slot, ok |-> FALSE]

MaxOf(S) == CHOOSE i \in S : \A j \in S : j <= i
MinOf(S) == CHOOSE i \in S : \A j \in S : i <= j

\* serial = x.get('serial'), read as a str ('' when absent or None)
SerialOf(x) == Get(x, "serial", "")
\* str(port.get('portId', ''))
PortIdOf(port) == Get(port, "portId", "")

(***************************************************************************)
(* The fetchers.  Each takes the content of the container it was given    *)
(* and the upstream responses, and returns the container's new content    *)
(* and whether it returned (ok) or raised.                                 *)
(***************************************************************************)
\* lines 9-23
get_devices_and_statuses(slot, up) ==
    IF Raises(up.devices) THEN Failed(slot) ELSE Done(slot \o ExtendList(up.devices))

\* lines 25-41
get_firewall_latency(slot, up) ==
    IF Raises(up.latency) THEN Failed(slot) ELSE Done(slot \o ExtendList(up.latency))

\* lines 43-57
get_firewall_uplink_statuses(slot, up) ==
    IF Raises(up.uplinks) THEN Failed(slot) ELSE Done(slot \o ExtendList(up.uplinks))

\* lines 135-149
get_vpn_statuses(slot, up) ==
    IF Raises(up.vpn) THEN Failed(slot) ELSE Done(slot \o ExtendList(up.vpn))

\* lines 151-162
get_organization(slot, up) ==
    IF Raises(up.org) THEN Failed(slot) ELSE Done(Update(slot, up.org.value))

\* lines 215-219: the device has a port with interval data
HasPortData(device) ==
    LET ports == Get(device, "ports", <<>>)
    IN  \E i \in DOMAIN ports : Get(ports[i], "intervals", <<>>) # <<>>

\* get_switch_ports_usage extending its list with whatever the call answers
get_switch_ports_usage_extend(slot, up) ==
    IF Raises(up.usage) THEN Failed(slot) ELSE Done(slot \o ExtendList(up.usage))

\* lines 182-228
get_switch_ports_usage(slot, up) ==
    IF Raises(up.usage) THEN Failed(slot)
    ELSE IF up.usage.kind = "envelope"
    THEN Done(slot \o SelectSeq(up.usage.items, HasPortData))
    ELSE Done(slot \o ExtendList(up.usage))

\* lines 347-360
DiscoveryOf(port) ==
    [device_type |-> is_meraki_device(Get(port, "cdp", <<>>),
                                      Get(port, "lldp", <<>>)).device_type,
     device_name |-> extract_device_name(
                        Get(parse_discovery_info(Get(port, "lldp", <<>>)),
                            TxtSystemName, TxtNA))]

\* lines 265, 309, 351-353: whether the loop of the status, tags or discovery
\* map writes an entry for the port
KeepPort(map, port) ==
    CASE map = "status" -> Get(port, "status", <<>>) # <<>>
      [] map = "tags" -> Get(port, "tags", {}) # {}
      [] map = "discovery" ->
            /\ (Get(port, "cdp", <<>>) # <<>> \/ Get(port, "lldp", <<>>) # <<>>)
            /\ is_meraki_device(Get(port, "cdp", <<>>), Get(port, "lldp", <<>>)).is_meraki

\* lines 266, 310, 357-360: the entry written for a kept port
PortValue(map, port) ==
    CASE map = "status" -> port["status"]
      [] map = "tags" -> port["tags"]
      [] map = "discovery" -> DiscoveryOf(port)

\* lines 262-266, 306-310, 345-360: the dict a `for port in ports` loop fills:
\* under each portId the value of the last kept port with that id
PortDict(ports, map) ==
    LET kept == {i \in DOMAIN ports : KeepPort(map, ports[i])}
    IN  [id \in {PortIdOf(ports[i]) : i \in kept} |->
            PortValue(map, ports[MaxOf({i \in kept : PortIdOf(ports[i]) = id})])]

\* lines 254-266, 298-310, 337-360: the dict a `for switch in ...` loop fills: a
\* switch without serial is skipped, the last record of a serial wins
SwitchDict(items, map) ==
    LET named == {i \in DOMAIN items : SerialOf(items[i]) # ""}
    IN  [serial \in {SerialOf(items[i]) : i \in named} |->
            PortDict(Get(items[MaxOf({i \in named : SerialOf(items[i]) = serial})],
                         "ports", <<>>), map)]

\* lines 230-272: only an items envelope binds switches_statuses; any other
\* answer raises at the loop
get_switch_ports_status_map(slot, up) ==
    IF Raises(up.status) \/ up.status.kind # "envelope" THEN Failed(slot)
    ELSE Done(Update(slot, SwitchDict(up.status.items, "status")))

\* lines 274-312
get_switch_ports_tags_map(slot, up) ==
    IF Raises(up.tags) \/ up.tags.kind = "other" THEN Failed(slot)
    ELSE Done(Update(slot, SwitchDict(Normalize(up.tags), "tags")))

\* lines 314-362
get_switch_ports_topology_discovery(slot, up) ==
    IF Raises(up.topology) \/ up.topology.kind = "other" THEN Failed(slot)
    ELSE Done(Update(slot, SwitchDict(Normalize(up.topology), "discovery")))

\* line 494
CpuLoadOf(device) ==
    cpu_load_calculator(IF Has(device, "cpuCount") THEN <<device["cpuCount"]>> ELSE <<>>,
                        Get(Last(device["series"]), "cpuLoad5", 0))

\* line 491
HasCpuSeries(device) == SerialOf(device) # "" /\ Get(device, "series", <<>>) # <<>>

\* lines 526-531
MemoryOf(device) ==
    LET intervals == Get(device, "intervals", <<>>)
    IN  IF intervals # <<>>
        THEN Get(Get(Get(Get(Last(intervals), "memory", EmptyDict), "used", EmptyDict),
                     "percentages", EmptyDict), "maximum", 0)
        ELSE 0

\* lines 416, 491, 532: whether the loop of the client, CPU or memory fetcher
\* writes an entry for the device
KeepDevice(feed, device) ==
    CASE feed = "clients" -> SerialOf(device) # ""
      [] feed = "cpu" -> HasCpuSeries(device)
      [] feed = "memory" -> SerialOf(device) # ""

\* lines 415, 494, 526-531: the entry written for a kept device
DeviceValue(feed, device) ==
    CASE feed = "clients" ->
            Get(Get(Get(device, "counts", EmptyDict), "byStatus", EmptyDict), "online", 0)
      [] feed = "cpu" -> CpuLoadOf(device).value
      [] feed = "memory" -> MemoryOf(device)

\* lines 412-417, 487-494, 524-533: the dict a `for device in all_devices` loop
\* fills: the last kept record of a serial wins
SerialDict(items, feed) ==
    LET kept == {i \in DOMAIN items : KeepDevice(feed, items[i])}
    IN  [serial \in {SerialOf(items[i]) : i \in kept} |->
            DeviceValue(feed, items[MaxOf({i \in kept : SerialOf(items[i]) = serial})])]

\* lines 364-417
get_wireless_ap_clients(slot, up) ==
    IF Raises(up.clients) \/ up.clients.kind = "other" THEN Failed(slot)
    ELSE Done(Update(slot, SerialDict(Normalize(up.clients), "clients")))

\* lines 462-496: the loop stops at the first device whose computation raises;
\* what the devices before it wrote stays in the container
get_wireless_ap_cpu_load_history(slot, up) ==
    IF Raises(up.cpu) \/ up.cpu.kind = "other" THEN Failed(slot)
    ELSE LET items == Normalize(up.cpu)
             bad == {i \in DOMAIN items : HasCpuSeries(items[i]) /\ CpuLoadOf(items[i]).raised}
             done == IF bad = {} THEN items ELSE SubSeq(items, 1, MinOf(bad) - 1)
             filled == Update(slot, SerialDict(done, "cpu"))
         IN  IF bad = {} THEN Done(filled) ELSE Failed(filled)

\* lines 499-533
get_device_memory_usage(slot, up) ==
    IF Raises(up.memory) \/ up.memory.kind = "other" THEN Failed(slot)
    ELSE Done(Update(slot, SerialDict(Normalize(up.memory), "memory")))

\* lines 629-637: the floor plans of the networks that have an id, in order
RECURSIVE FloorResponses(_, _, _)
FloorResponses(network_list, floorplans, i) ==
    IF i > Len(network_list) THEN <<>>
    ELSE IF Get(network_list[i], "id", "") = ""
    THEN FloorResponses(network_list, floorplans, i + 1)
    ELSE <<Get(floorplans, network_list[i]["id"], [kind |-> "bare", items |-> <<>>])>>
           \o FloorResponses(network_list, floorplans, i + 1)

RECURSIVE ExtendAll(_)
ExtendAll(resps) ==
    IF resps = <<>> THEN <<>> ELSE ExtendList(Head(resps)) \o ExtendAll(Tail(resps))

\* lines 645-652: serial -> name of the last floor that lists the serial
FloorDict(floor_list) ==
    LET on(i) == {SerialOf(Get(floor_list[i], "devices", <<>>)[j]) :
                    j \in DOMAIN Get(floor_list[i], "devices", <<>>)} \ {""}
    IN  [serial \in UNION {on(i) : i \in DOMAIN floor_list} |->
            Get(floor_list[MaxOf({i \in DOMAIN floor_list : serial \in on(i)})],
                "name", "N/A")]

\* lines 605-654
get_floor_name_per_device(slot, up) ==
    IF Raises(up.networks) \/ up.networks.kind = "other" THEN Failed(slot)
    ELSE LET resps == FloorResponses(Normalize(up.networks), up.floorplans, 1)
         IN  IF \E i \in DOMAIN resps : Raises(resps[i]) THEN Failed(slot)
             ELSE LET floor_list == ExtendAll(resps)
                      bad == {i \in DOMAIN floor_list : IsStr(floor_list[i])}
                      done == IF bad = {} THEN floor_list
                              ELSE SubSeq(floor_list, 1, MinOf(bad) - 1)
                      filled == Update(slot, FloorDict(done))
                  IN  IF bad = {} THEN Done(filled) ELSE Failed(filled)

(***************************************************************************)
(* The merge passes of get_usage.  Each takes the_list (serial -> record)  *)
(* and returns [list, ok]; ok is FALSE when the pass raises, and the       *)
(* exception leaves get_usage.                                             *)
(***************************************************************************)
Ok(list) == [list |-> list, ok |-> TRUE]
Raised(list) == [list |-> list, ok |-> FALSE]

\* the_list[serial][field] = value
\* the record rebuilt with the written field alone
SetFieldRebuilding(list, serial, field, value) ==
    Put(list, serial, [x \in {field} |-> value])

SetField(list, serial, field, value) == Put(list, serial, Put(list[serial], field, value))

\* d.get(k) is truthy, for str values
Truthy(d, k) == Get(d, k, "") # ""

\* a or b or c ..., for str values ('' when all are falsy)
RECURSIVE FirstTruthy(_)
FirstTruthy(vals) ==
    IF vals = <<>> THEN ""
    ELSE IF Head(vals) # "" THEN Head(vals) ELSE FirstTruthy(Tail(vals))

\* {"missing data": True}
Stub == [x \in {"missing data"} |-> TRUE]

\* WithStub creating the stub without its flag
WithStubNoFlag(list, serial) ==
    IF serial \in DOMAIN list THEN list ELSE Put(list, serial, EmptyDict)

\* WithStub putting a fresh stub in the place of a stub an earlier pass made
WithStubFresh(list, serial) ==
    IF serial \in DOMAIN list /\ ~Has(list[serial], "missing data") THEN list
    ELSE Put(list, serial, Stub)

\* the flag set on every record a secondary feed refers to, seeded or not
WithStubFlagging(list, serial) ==
    IF serial \in DOMAIN list THEN Put(list, serial, Put(list[serial], "missing data", TRUE))
    ELSE Put(list, serial, Stub)

\* try: the_list[serial] / except KeyError: the_list[serial] = {"missing data": True}
WithStub(list, serial) == IF serial \in DOMAIN list THEN list ELSE Put(list, serial, Stub)

\* the lookup left empty whatever the networks call answers
NetworksMapNeverFilled(up) == EmptyDict

\* lines 739-746: id -> name; any exception leaves the lookup empty
NetworksMap(up) ==
    IF up.networks.kind # "bare" THEN EmptyDict
    ELSE LET items == up.networks.items
             ids == {Get(items[i], "id", "") : i \in DOMAIN items}
             last(id) == items[MaxOf({i \in DOMAIN items : Get(items[i], "id", "") = id})]
         IN  [id \in {x \in ids : Has(last(x), "name")} |-> last(id)["name"]]

\* lines 776-780
NetworkIdOf(device) ==
    FirstTruthy(<<Get(Get(device, "network", EmptyDict), "id", ""),
                  Get(device, "networkId", ""), Get(device, "network_id", "")>>)

\* `if cond: rec[field] = value`
PutIf(rec, cond, field, value) == IF cond THEN Put(rec, field, value) ELSE rec

\* lines 801-803
RECURSIVE WithIps(_, _, _)
WithIps(rec, device, keys) ==
    IF keys = <<>> THEN rec
    ELSE WithIps(PutIf(rec, Truthy(device, Head(keys)), Head(keys), Get(device, Head(keys), "")),
                 device, Tail(keys))

\* SeedRecord writing floor_name whether or not the floor plans list the serial
SeedRecordFloorAlways(device, serial, org_data, networks_map, devices_floor_info) ==
    LET r0 == [x \in {"orgName"} |-> Get(org_data, "name", "")]
        name == FirstTruthy(<<Get(device, "name", ""), Get(device, "displayName", ""),
                              Get(device, "mac", ""), serial>>)
        r1 == PutIf(r0, name # "", "name", name)
        model == FirstTruthy(<<Get(device, "model", ""), Get(device, "productType", ""),
                               Get(device, "product_type", "")>>)
        r2 == PutIf(r1, model # "", "model", model)
        r3 == PutIf(r2, Truthy(device, "mac"), "mac", Get(device, "mac", ""))
        network_id == NetworkIdOf(device)
        r4 == PutIf(r3, network_id # "", "networkName",
                    IF Has(networks_map, network_id) THEN networks_map[network_id]
                    ELSE network_id)
        r5 == PutIf(r4, Truthy(device, "status"), "status", Get(device, "status", ""))
        r6 == PutIf(r5, Truthy(device, "productType"), "productType",
                    Get(device, "productType", ""))
        r7 == Put(r6, "floor_name", Get(devices_floor_info, serial, ""))
        r8 == WithIps(r7, device, <<"wan1Ip", "wan2Ip", "lanIp", "publicIp">>)
    IN  PutIf(r8, Has(device, "usingCellularFailover"), "usingCellularFailover",
              Get(device, "usingCellularFailover", FALSE))

\* lines 758-807: the record seeded for one inventory device
SeedRecord(device, serial, org_data, networks_map, devices_floor_info) ==
    LET r0 == [x \in {"orgName"} |-> Get(org_data, "name", "")]
        name == FirstTruthy(<<Get(device, "name", ""), Get(device, "displayName", ""),
                              Get(device, "mac", ""), serial>>)
        r1 == PutIf(r0, name # "", "name", name)
        model == FirstTruthy(<<Get(device, "model", ""), Get(device, "productType", ""),
                               Get(device, "product_type", "")>>)
        r2 == PutIf(r1, model # "", "model", model)
        r3 == PutIf(r2, Truthy(device, "mac"), "mac", Get(device, "mac", ""))
        network_id == NetworkIdOf(device)
        r4 == PutIf(r3, network_id # "", "networkName",
                    IF Has(networks_map, network_id) THEN networks_map[network_id]
                    ELSE network_id)
        r5 == PutIf(r4, Truthy(device, "status"), "status", Get(device, "status", ""))
        r6 == PutIf(r5, Truthy(device, "productType"), "productType",
                    Get(device, "productType", ""))
        r7 == PutIf(r6, Truthy(devices_floor_info, serial), "floor_name",
                    Get(devices_floor_info, serial, ""))
        r8 == WithIps(r7, device, <<"wan1Ip", "wan2Ip", "lanIp", "publicIp">>)
    IN  PutIf(r8, Has(device, "usingCellularFailover"), "usingCellularFailover",
              Get(device, "usingCellularFailover", FALSE))

\* SeedPass leaving the loop (break) at the first record without a serial
RECURSIVE SeedPassBreak(_, _, _, _, _, _)
SeedPassBreak(list, devices, i, org_data, networks_map, devices_floor_info) ==
    IF i > Len(devices) THEN Ok(list)
    ELSE IF IsStr(devices[i]) THEN Raised(list)
    ELSE IF SerialOf(devices[i]) = "" THEN Ok(list)
    ELSE SeedPassBreak(Put(list, SerialOf(devices[i]),
                           SeedRecord(devices[i], SerialOf(devices[i]), org_data,
                                      networks_map, devices_floor_info)),
                       devices, i + 1, org_data, networks_map, devices_floor_info)

\* lines 750-807
RECURSIVE SeedPass(_, _, _, _, _, _)
SeedPass(list, devices, i, org_data, networks_map, devices_floor_info) ==
    IF i > Len(devices) THEN Ok(list)
    ELSE IF IsStr(devices[i]) THEN Raised(list)
    ELSE IF SerialOf(devices[i]) = ""
    THEN SeedPass(list, devices, i + 1, org_data, networks_map, devices_floor_info)
    ELSE SeedPass(Put(list, SerialOf(devices[i]),
                      SeedRecord(devices[i], SerialOf(devices[i]), org_data, networks_map,
                                 devices_floor_info)),
                  devices, i + 1, org_data, networks_map, devices_floor_info)

\* LatencyPass reading the first element of timeSeries instead of the last
RECURSIVE LatencyPassFirst(_, _, _)
LatencyPassFirst(list, firewall_latencies, i) ==
    IF i > Len(firewall_latencies) THEN Ok(list)
    ELSE LET device == firewall_latencies[i]
         IN  IF IsStr(device) \/ ~Has(device, "serial") THEN Raised(list)
             ELSE LET l1 == WithStub(list, device["serial"])
                  IN  IF \/ ~Has(device, "timeSeries")
                         \/ device["timeSeries"] = <<>>
                         \/ ~Has(Head(device["timeSeries"]), "latencyMs")
                         \/ ~Has(Head(device["timeSeries"]), "lossPercent")
                      THEN Raised(l1)
                      ELSE LatencyPassFirst(
                               SetField(SetField(l1, device["serial"], "latencyMs",
                                                 Head(device["timeSeries"])["latencyMs"]),
                                        device["serial"], "lossPercent",
                                        Head(device["timeSeries"])["lossPercent"]),
                               firewall_latencies, i + 1)

\* lines 809-816
RECURSIVE LatencyPass(_, _, _)
LatencyPass(list, firewall_latencies, i) ==
    IF i > Len(firewall_latencies) THEN Ok(list)
    ELSE LET device == firewall_latencies[i]
         IN  IF IsStr(device) \/ ~Has(device, "serial") THEN Raised(list)
             ELSE LET l1 == WithStub(list, device["serial"])
                  IN  IF \/ ~Has(device, "timeSeries")
                         \/ device["timeSeries"] = <<>>
                         \/ ~Has(Last(device["timeSeries"]), "latencyMs")
                      THEN Raised(l1)
                      ELSE LET l2 == SetField(l1, device["serial"], "latencyMs",
                                              Last(device["timeSeries"])["latencyMs"])
                           IN  IF ~Has(Last(device["timeSeries"]), "lossPercent")
                               THEN Raised(l2)
                               ELSE LatencyPass(
                                        SetField(l2, device["serial"], "lossPercent",
                                                 Last(device["timeSeries"])["lossPercent"]),
                                        firewall_latencies, i + 1)

\* lines 823-825: interface -> status, filled in order until an uplink lacks a key
UplinksOf(uplinks) ==
    [iface \in {uplinks[j]["interface"] : j \in DOMAIN uplinks} |->
        uplinks[MaxOf({j \in DOMAIN uplinks : uplinks[j]["interface"] = iface})]["status"]]

\* lines 818-825
RECURSIVE UplinkPass(_, _, _)
UplinkPass(list, firewall_uplink_statuses, i) ==
    IF i > Len(firewall_uplink_statuses) THEN Ok(list)
    ELSE LET device == firewall_uplink_statuses[i]
         IN  IF IsStr(device) \/ ~Has(device, "serial") THEN Raised(list)
             ELSE LET l1 == SetField(WithStub(list, device["serial"]), device["serial"],
                                     "uplinks", EmptyDict)
                  IN  IF ~Has(device, "uplinks") THEN Raised(l1)
                      ELSE LET bad == {j \in DOMAIN device["uplinks"] :
                                         \/ ~Has(device["uplinks"][j], "interface")
                                         \/ ~Has(device["uplinks"][j], "status")}
                               done == IF bad = {} THEN device["uplinks"]
                                       ELSE SubSeq(device["uplinks"], 1, MinOf(bad) - 1)
                               l2 == SetField(l1, device["serial"], "uplinks", UplinksOf(done))
                           IN  IF bad # {} THEN Raised(l2)
                               ELSE UplinkPass(l2, firewall_uplink_statuses, i + 1)

\* lines 827-837, the loop body under `if 'vpn' in COLLECT_EXTRA`
RECURSIVE VpnPass(_, _, _)
VpnPass(list, vpn_statuses, i) ==
    IF i > Len(vpn_statuses) THEN Ok(list)
    ELSE LET vpn == vpn_statuses[i]
         IN  IF IsStr(vpn) \/ ~Has(vpn, "deviceSerial") THEN Raised(list)
             ELSE LET s == vpn["deviceSerial"]
                      l1 == WithStub(list, s)
                  IN  IF ~Has(vpn, "vpnMode") THEN Raised(l1)
                      ELSE IF \/ ~Has(vpn, "exportedSubnets")
                              \/ \E j \in DOMAIN vpn["exportedSubnets"] :
                                    ~Has(vpn["exportedSubnets"][j], "subnet")
                      THEN Raised(SetField(l1, s, "vpnMode", vpn["vpnMode"]))
                      ELSE LET l2 == SetField(SetField(l1, s, "vpnMode", vpn["vpnMode"]), s,
                                        "exportedSubnets",
                                        [j \in DOMAIN vpn["exportedSubnets"] |->
                                            vpn["exportedSubnets"][j]["subnet"]])
                           IN  IF ~Has(vpn, "merakiVpnPeers") THEN Raised(l2)
                               ELSE IF ~Has(vpn, "thirdPartyVpnPeers")
                               THEN Raised(SetField(l2, s, "merakiVpnPeers",
                                                    vpn["merakiVpnPeers"]))
                               ELSE VpnPass(
                                      SetField(SetField(l2, s, "merakiVpnPeers",
                                                        vpn["merakiVpnPeers"]),
                                               s, "thirdPartyVpnPeers", vpn["thirdPartyVpnPeers"]),
                                      vpn_statuses, i + 1)

\* PortFields writing the byte-usage fields whatever the toggle says
PortFieldsUsageAlways(rec, latest_interval, collect_extra, ap) ==
    LET data_usage == Get(Get(latest_interval, "data", EmptyDict), "usage", EmptyDict)
        bandwidth == Get(Get(latest_interval, "bandwidth", EmptyDict), "usage", EmptyDict)
        r1 == Put(Put(Put(rec, "UsageTotalBytes", Get(data_usage, "total", 0)),
                      "UsageUpstreamBytes", Get(data_usage, "upstream", 0)),
                  "UsageDownstreamBytes", Get(data_usage, "downstream", 0))
        r2 == Put(Put(Put(r1, "bandwidthTotalKbps", Get(bandwidth, "total", 0)),
                      "bandwidthUpstreamKbps", Get(bandwidth, "upstream", 0)),
                  "bandwidthDownstreamKbps", Get(bandwidth, "downstream", 0))
    IN  PutIf(r2, ap.is_ap, "ap_device_name", ap.name)

\* lines 867-881: the fields one kept port writes into its port record
PortFields(rec, latest_interval, collect_extra, ap) ==
    LET data_usage == Get(Get(latest_interval, "data", EmptyDict), "usage", EmptyDict)
        bandwidth == Get(Get(latest_interval, "bandwidth", EmptyDict), "usage", EmptyDict)
        r1 == IF "usage" \in collect_extra
              THEN Put(Put(Put(rec, "UsageTotalBytes", Get(data_usage, "total", 0)),
                           "UsageUpstreamBytes", Get(data_usage, "upstream", 0)),
                       "UsageDownstreamBytes", Get(data_usage, "downstream", 0))
              ELSE rec
        r2 == Put(Put(Put(r1, "bandwidthTotalKbps", Get(bandwidth, "total", 0)),
                      "bandwidthUpstreamKbps", Get(bandwidth, "upstream", 0)),
                  "bandwidthDownstreamKbps", Get(bandwidth, "downstream", 0))
    IN  PutIf(r2, ap.is_ap, "ap_device_name", ap.name)

\* PortLoop keeping every port that has interval data, whatever its class
RECURSIVE PortLoopUnfiltered(_, _, _, _, _, _, _, _)
PortLoopUnfiltered(rec, serial, ports, j, collect_extra, port_tags_map, port_discovery_map, port_statuses_map) ==
    IF j > Len(ports) THEN rec
    ELSE LET port == ports[j]
             port_id == PortIdOf(port)
             ap == is_ap_device(port_id, serial, port_discovery_map)
             usage == Get(rec, "switchPortUsage", EmptyDict)
         IN  IF Get(port, "intervals", <<>>) = <<>>
             THEN PortLoopUnfiltered(rec, serial, ports, j + 1, collect_extra,
                                     port_tags_map, port_discovery_map, port_statuses_map)
             ELSE PortLoopUnfiltered(
                      Put(rec, "switchPortUsage",
                          Put(usage, port_id,
                              PortFields(Get(usage, port_id, EmptyDict),
                                         Last(port["intervals"]), collect_extra, ap))),
                      serial, ports, j + 1, collect_extra, port_tags_map,
                      port_discovery_map, port_statuses_map)

\* lines 844-881: the ports of one switch, written into its record
RECURSIVE PortLoop(_, _, _, _, _, _, _, _)
PortLoop(rec, serial, ports, j, collect_extra, port_tags_map, port_discovery_map, port_statuses_map) ==
    IF j > Len(ports) THEN rec
    ELSE LET port == ports[j]
             port_id == PortIdOf(port)
             is_uplink == is_uplink_port(port_id, serial, port_tags_map, port_discovery_map,
                                         port_statuses_map)
             ap == is_ap_device(port_id, serial, port_discovery_map)
             usage == Get(rec, "switchPortUsage", EmptyDict)
         IN  IF Get(port, "intervals", <<>>) = <<>> \/ (~is_uplink /\ ~ap.is_ap)
             THEN PortLoop(rec, serial, ports, j + 1, collect_extra, port_tags_map,
                           port_discovery_map, port_statuses_map)
             ELSE PortLoop(Put(rec, "switchPortUsage",
                               Put(usage, port_id,
                                   PortFields(Get(usage, port_id, EmptyDict),
                                              Last(port["intervals"]), collect_extra, ap))),
                           serial, ports, j + 1, collect_extra, port_tags_map,
                           port_discovery_map, port_statuses_map)

\* lines 839-881
RECURSIVE PortsPass(_, _, _, _, _, _, _)
PortsPass(list, switch_ports_usage, i, collect_extra, port_tags_map, port_discovery_map, port_statuses_map) ==
    IF i > Len(switch_ports_usage) THEN Ok(list)
    ELSE LET device == switch_ports_usage[i]
         IN  IF IsStr(device) \/ ~Has(device, "serial") THEN Raised(list)
             ELSE LET l1 == WithStub(list, device["serial"])
                  IN  PortsPass(Put(l1, device["serial"],
                                    PortLoop(l1[device["serial"]], device["serial"],
                                             Get(device, "ports", <<>>), 1, collect_extra,
                                             port_tags_map, port_discovery_map,
                                             port_statuses_map)),
                                switch_ports_usage, i + 1, collect_extra, port_tags_map,
                                port_discovery_map, port_statuses_map)

\* LayerPass creating a stub for a serial the mapping does not hold yet
LayerPassWithStub(list, d, field) ==
    [serial \in DOMAIN list \cup DOMAIN d |->
        IF serial \in DOMAIN d
        THEN Put(IF serial \in DOMAIN list THEN list[serial] ELSE Stub, field, d[serial])
        ELSE list[serial]]

\* lines 883-901: `for serial, v in d.items(): if serial in the_list: ...[field] = v`
LayerPass(list, d, field) ==
    [serial \in DOMAIN list |->
        IF serial \in DOMAIN d THEN Put(list[serial], field, d[serial]) ELSE list[serial]]

(***************************************************************************)
(* State of one get_usage call.                                            *)
(***************************************************************************)
VARIABLES
    upstream,       \* what each upstream API call answers during this scrape
    COLLECT_EXTRA,  \* the global toggle tuple, a subset of {"vpn", "usage"}
    pc,             \* position of get_usage
    containers,     \* the containers of lines 683-697, by name
    threads,        \* the list of Thread objects: [target, arg]
    tstate,         \* per thread: "new", "running", "done" (returned), "failed" (raised)
    idx,            \* index of the start loop, then of the join loop
    networks_map,
    the_list,
    args,           \* arguments of a direct call of a helper function (<<>>: no call)
    ret             \* <<value>> once that call has returned

vars == <<upstream, COLLECT_EXTRA, pc, containers, threads, tstate, idx, networks_map,
          the_list, args, ret>>

ContainerNames ==
    {"devices_and_statuses", "firewall_latencies", "firewall_uplink_statuses",
     "vpn_statuses", "org_data", "switch_ports_usage", "port_statuses_map",
     "port_tags_map", "port_discovery_map", "devices_floor_info", "ap_clients_info",
     "ap_cpu_loads", "device_memory_usage"}

\* lines 683-697: every container starts empty ([] and {} are both <<>>)
EmptyContainers == [c \in ContainerNames |-> <<>>]

Thread(target, arg) == [target |-> target, arg |-> arg]

\* the thread list with the CPU-load thread given the client-count container
ThreadListShared(collect_extra) ==
    << Thread("get_devices_and_statuses", "devices_and_statuses"),
       Thread("get_firewall_latency", "firewall_latencies"),
       Thread("get_firewall_uplink_statuses", "firewall_uplink_statuses"),
       Thread("get_organization", "org_data"),
       Thread("get_switch_ports_usage", "switch_ports_usage"),
       Thread("get_switch_ports_status_map", "port_statuses_map"),
       Thread("get_switch_ports_tags_map", "port_tags_map"),
       Thread("get_switch_ports_topology_discovery", "port_discovery_map"),
       Thread("get_floor_name_per_device", "devices_floor_info"),
       Thread("get_wireless_ap_clients", "ap_clients_info"),
       Thread("get_wireless_ap_cpu_load_history", "ap_clients_info"),
       Thread("get_device_memory_usage", "device_memory_usage") >>
    \o (IF "vpn" \in collect_extra
        THEN << Thread("get_vpn_statuses", "vpn_statuses") >>
        ELSE << >>)

\* the thread list with the VPN thread appended whatever the toggle says
ThreadListVpnAlways(collect_extra) ==
    << Thread("get_devices_and_statuses", "devices_and_statuses"),
       Thread("get_firewall_latency", "firewall_latencies"),
       Thread("get_firewall_uplink_statuses", "firewall_uplink_statuses"),
       Thread("get_organization", "org_data"),
       Thread("get_switch_ports_usage", "switch_ports_usage"),
       Thread("get_switch_ports_status_map", "port_statuses_map"),
       Thread("get_switch_ports_tags_map", "port_tags_map"),
       Thread("get_switch_ports_topology_discovery", "port_discovery_map"),
       Thread("get_floor_name_per_device", "devices_floor_info"),
       Thread("get_wireless_ap_clients", "ap_clients_info"),
       Thread("get_wireless_ap_cpu_load_history", "ap_cpu_loads"),
       Thread("get_device_memory_usage", "device_memory_usage"),
       Thread("get_vpn_statuses", "vpn_statuses") >>

\* lines 705-729
ThreadList(collect_extra) ==
    << Thread("get_devices_and_statuses", "devices_and_statuses"),
       Thread("get_firewall_latency", "firewall_latencies"),
       Thread("get_firewall_uplink_statuses", "firewall_uplink_statuses"),
       Thread("get_organization", "org_data"),
       Thread("get_switch_ports_usage", "switch_ports_usage"),
       Thread("get_switch_ports_status_map", "port_statuses_map"),
       Thread("get_switch_ports_tags_map", "port_tags_map"),
       Thread("get_switch_ports_topology_discovery", "port_discovery_map"),
       Thread("get_floor_name_per_device", "devices_floor_info"),
       Thread("get_wireless_ap_clients", "ap_clients_info"),
       Thread("get_wireless_ap_cpu_load_history", "ap_cpu_loads"),
       Thread("get_device_memory_usage", "device_memory_usage") >>
    \o (IF "vpn" \in collect_extra
        THEN << Thread("get_vpn_statuses", "vpn_statuses") >>
        ELSE << >>)

\* Thread.run(): target(*args)
RunTarget(target, slot, up) ==
    CASE target = "get_devices_and_statuses" -> get_devices_and_statuses(slot, up)
      [] target = "get_firewall_latency" -> get_firewall_latency(slot, up)
      [] target = "get_firewall_uplink_statuses" -> get_firewall_uplink_statuses(slot, up)
      [] target = "get_organization" -> get_organization(slot, up)
      [] target = "get_switch_ports_usage" -> get_switch_ports_usage(slot, up)
      [] target = "get_switch_ports_status_map" -> get_switch_ports_status_map(slot, up)
      [] target = "get_switch_ports_tags_map" -> get_switch_ports_tags_map(slot, up)
      [] target = "get_switch_ports_topology_discovery" ->
             get_switch_ports_topology_discovery(slot, up)
      [] target = "get_floor_name_per_device" -> get_floor_name_per_device(slot, up)
      [] target = "get_wireless_ap_clients" -> get_wireless_ap_clients(slot, up)
      [] target = "get_wireless_ap_cpu_load_history" ->
             get_wireless_ap_cpu_load_history(slot, up)
      [] target = "get_device_memory_usage" -> get_device_memory_usage(slot, up)
      [] target = "get_vpn_statuses" -> get_vpn_statuses(slot, up)

Terminated(i) == tstate[i] \in {"done", "failed"}

(***************************************************************************)
(* Actions of get_usage and of its fetcher threads.                        *)
(***************************************************************************)
\* lines 705-729
BuildThreads ==
    /\ pc = "build"
    /\ threads' = ThreadList(COLLECT_EXTRA)
    /\ tstate' = [i \in DOMAIN ThreadList(COLLECT_EXTRA) |-> "new"]
    /\ idx' = 1
    /\ pc' = "start"
    /\ UNCHANGED <<upstream, COLLECT_EXTRA, containers, networks_map, the_list, args, ret>>

\* lines 732-733: one iteration of `for thread in threads: thread.start()`
StartThread ==
    /\ pc = "start"
    /\ tstate' = [tstate EXCEPT ![idx] = "running"]
    /\ IF idx = Len(threads)
       THEN pc' = "join" /\ idx' = 1
       ELSE pc' = pc /\ idx' = idx + 1
    /\ UNCHANGED <<upstream, COLLECT_EXTRA, containers, threads, networks_map, the_list, args, ret>>

\* a started thread runs its target on the container it was given and terminates
RunThread(i) ==
    /\ tstate[i] = "running"
    /\ LET r == RunTarget(threads[i].target, containers[threads[i].arg], upstream)
       IN  /\ containers' = [containers EXCEPT ![threads[i].arg] = r.slot]
           /\ tstate' = [tstate EXCEPT ![i] = IF r.ok THEN "done" ELSE "failed"]
    /\ UNCHANGED <<upstream, COLLECT_EXTRA, pc, threads, idx, networks_map, the_list, args, ret>>

\* a join with a timeout: it returns for a started thread that still runs
JoinGivesUp(i) == tstate[i] # "new"

\* a join that does not wait for the thread
JoinReturnsAtOnce(i) == TRUE

\* thread.join() returns once the thread has terminated, whether its target
\* returned or raised (an exception in a thread does not reach the joiner)
JoinReturns(i) == Terminated(i)

\* lines 736-737: one iteration of `for thread in threads: thread.join()`
JoinThread ==
    /\ pc = "join"
    /\ JoinReturns(idx)
    /\ IF idx = Len(threads)
       THEN pc' = "networks" /\ idx' = idx
       ELSE pc' = pc /\ idx' = idx + 1
    /\ UNCHANGED <<upstream, COLLECT_EXTRA, containers, threads, tstate, networks_map,
                   the_list, args, ret>>

\* lines 739-746
FetchNetworks ==
    /\ pc = "networks"
    /\ networks_map' = NetworksMap(upstream)
    /\ pc' = "seed"
    /\ UNCHANGED <<upstream, COLLECT_EXTRA, containers, threads, tstate, idx, the_list, args, ret>>

\* a merge pass: the_list becomes what the pass leaves, and get_usage goes on
\* to the next pass, or is left by the exception the pass raised
MergeStep(here, result, next) ==
    /\ pc = here
    /\ the_list' = result.list
    /\ pc' = IF result.ok THEN next ELSE "raised"
    /\ UNCHANGED <<upstream, COLLECT_EXTRA, containers, threads, tstate, idx, networks_map, args, ret>>

\* lines 750-807
Seed ==
    MergeStep("seed",
              SeedPass(EmptyDict, containers["devices_and_statuses"], 1,
                       containers["org_data"], networks_map,
                       containers["devices_floor_info"]),
              "latency")

\* lines 809-816
Latency ==
    MergeStep("latency", LatencyPass(the_list, containers["firewall_latencies"], 1),
              "uplinks")

\* lines 818-825
Uplinks ==
    MergeStep("uplinks", UplinkPass(the_list, containers["firewall_uplink_statuses"], 1),
              "vpn")

\* lines 827-837
Vpn ==
    MergeStep("vpn",
              IF "vpn" \in COLLECT_EXTRA
              THEN VpnPass(the_list, containers["vpn_statuses"], 1)
              ELSE Ok(the_list),
              "ports")

\* lines 839-881
Ports ==
    MergeStep("ports",
              PortsPass(the_list, containers["switch_ports_usage"], 1, COLLECT_EXTRA,
                        containers["port_tags_map"], containers["port_discovery_map"],
                        containers["port_statuses_map"]),
              "clients")

\* lines 884-886
Clients ==
    MergeStep("clients",
              Ok(LayerPass(the_list, containers["ap_clients_info"], "wirelessClientCount")),
              "cpu")

\* lines 893-895
Cpu ==
    MergeStep("cpu",
              Ok(LayerPass(the_list, containers["ap_cpu_loads"], "wirelessApCpuLoadPercent")),
              "memory")

\* lines 899-908
Memory ==
    MergeStep("memory",
              Ok(LayerPass(the_list, containers["device_memory_usage"], "memoryUsedPercent")),
              "returned")

Merge == FetchNetworks \/ Seed \/ Latency \/ Uplinks \/ Vpn \/ Ports \/ Clients \/ Cpu \/ Memory

(***************************************************************************)
(* Upstream data the model explores.                                       *)
(***************************************************************************)
Bare(items) == [kind |-> "bare", items |-> items]
Envelope(items) == [kind |-> "envelope", items |-> items]
RaiseResp == [kind |-> "raise", items |-> <<>>]
OtherResp == [kind |-> "other", items |-> <<>>]
OrgResp(value) == [kind |-> "dict", items |-> <<>>, value |-> value]

SeqsUpTo(S, n) == UNION {[1..k -> S] : k \in 0..n}

\* the 'serial' part of a record: key absent, or present with that value
SerialPart(S) == {EmptyDict} \cup {[serial |-> s] : s \in S}

\* inventory records: Q1 with every optional field, Q2 with few, two without serial
InvQ1 == [serial |-> "Q1", name |-> "sw1", model |-> "MS220", mac |-> "aa:01",
          networkId |-> "N1", status |-> "online", productType |-> "switch",
          lanIp |-> "10.0.0.1"]
InvQ2 == [serial |-> "Q2", productType |-> "appliance", usingCellularFailover |-> FALSE,
          wan1Ip |-> "192.0.2.2", wan2Ip |-> ""]
InvEmptySerial == [serial |-> "", name |-> "ghost"]
InvNoSerial == [name |-> "ghost"]
InvDevices == {InvQ1, InvQ2, InvEmptySerial, InvNoSerial}
InvLists == SeqsUpTo(InvDevices, MaxInv)

\* serials a secondary feed may carry: empty, in the inventory (Q1), never in it (Q3)
FeedSerials == {"", "Q1", "Q3"}

Sample(k) == [latencyMs |-> 10 * k, lossPercent |-> k]
TimeSeriesOf(n) == [k \in 1..n |-> Sample(k)]
LatencyItems ==
    {Update(sp, [timeSeries |-> TimeSeriesOf(n)]) :
        sp \in SerialPart(FeedSerials), n \in 0..MaxSeries}

UplinkItems ==
    {Update(sp, [uplinks |-> <<[interface |-> "wan1", status |-> "active"]>>]) :
        sp \in SerialPart(FeedSerials)}

VpnItem(s) == [deviceSerial |-> s, vpnMode |-> "hub",
               exportedSubnets |-> <<[subnet |-> "10.0.0.0/24"]>>,
               merakiVpnPeers |-> <<>>, thirdPartyVpnPeers |-> <<>>]
VpnItems == {VpnItem(s) : s \in FeedSerials}
              \cup {[vpnMode |-> "hub", exportedSubnets |-> <<>>,
                     merakiVpnPeers |-> <<>>, thirdPartyVpnPeers |-> <<>>]}

Interval(k) == [data |-> [usage |-> [total |-> 3 * k, upstream |-> k, downstream |-> 2 * k]],
                bandwidth |-> [usage |-> [total |-> 30 * k, upstream |-> 10 * k]]]
IntervalsOf(n) == [k \in 1..n |-> Interval(k)]
UsagePort(id, n) == [portId |-> id, intervals |-> IntervalsOf(n)]
UsageItems ==
    {sp : sp \in SerialPart(FeedSerials)}
      \cup {Update(sp, [ports |-> <<UsagePort("1", n)>>]) :
              sp \in SerialPart(FeedSerials), n \in 0..MaxSeries}

TxtConnectedCap == <<"C","o","n","n","e","c","t","e","d">>
TxtDisconnected == <<"D","i","s","c","o","n","n","e","c","t","e","d">>
TxtLldpSystemName == <<"S","y","s","t","e","m"," ","n","a","m","e">>
TxtCdpPlatform == <<"P","l","a","t","f","o","r","m">>
TxtApName == <<"M","e","r","a","k","i"," ","M","R","4","2"," ","-"," ","A","P","1">>
TxtSwitchPlatform == <<"M","e","r","a","k","i"," ","M","S","2","2","0">>

StatusItem(s, id, status) == [serial |-> s, ports |-> <<[portId |-> id, status |-> status]>>]
TagsItem(s, id, tags) == [serial |-> s, ports |-> <<[portId |-> id, tags |-> tags]>>]
LldpItem(s, id, name) ==
    [serial |-> s, ports |-> <<[portId |-> id,
                                lldp |-> <<[name |-> TxtLldpSystemName, value |-> name]>>]>>]
CdpItem(s, id, platform) ==
    [serial |-> s, ports |-> <<[portId |-> id,
                                cdp |-> <<[name |-> TxtCdpPlatform, value |-> platform]>>]>>]

\* every call answers, with nothing
DefaultWorld ==
    [devices |-> Bare(<<>>), latency |-> Bare(<<>>), uplinks |-> Bare(<<>>),
     vpn |-> Bare(<<>>), org |-> OrgResp([name |-> "Org"]), usage |-> Envelope(<<>>),
     status |-> Envelope(<<>>), tags |-> Envelope(<<>>), topology |-> Envelope(<<>>),
     networks |-> Bare(<<>>), floorplans |-> EmptyDict, clients |-> Envelope(<<>>),
     cpu |-> Envelope(<<>>), memory |-> Envelope(<<>>)]

\* every call answers with data
BusyWorld ==
    [devices |-> Bare(<<InvQ1, InvNoSerial, InvQ2>>),
     latency |-> Bare(<<Update([serial |-> "Q2"], [timeSeries |-> TimeSeriesOf(2)]),
                        Update([serial |-> "Q3"], [timeSeries |-> TimeSeriesOf(1)])>>),
     uplinks |-> Bare(<<[serial |-> "Q2",
                         uplinks |-> <<[interface |-> "wan1", status |-> "active"]>>]>>),
     vpn |-> Bare(<<VpnItem("Q2")>>),
     org |-> OrgResp([name |-> "Org"]),
     usage |-> Envelope(<<[serial |-> "Q1",
                           ports |-> <<UsagePort("1", 2), UsagePort("2", 1),
                                       UsagePort("3", 1)>>]>>),
     status |-> Envelope(<<StatusItem("Q1", "1", TxtConnectedCap)>>),
     tags |-> Envelope(<<TagsItem("Q1", "1", {"uplink"})>>),
     topology |-> Envelope(<<LldpItem("Q1", "2", TxtApName)>>),
     networks |-> Bare(<<[id |-> "N1", name |-> "Branch"]>>),
     floorplans |-> [n \in {"N1"} |->
                        Bare(<<[name |-> "Floor1", devices |-> <<[serial |-> "Q1"]>>]>>)],
     clients |-> Envelope(<<[serial |-> "Q1",
                             counts |-> [byStatus |-> [online |-> 5]]]>>),
     cpu |-> Envelope(<<[serial |-> "Q1", cpuCount |-> 2,
                         series |-> <<[cpuLoad5 |-> 65536]>>]>>),
     memory |-> Envelope(<<[serial |-> "Q1",
                            intervals |-> <<[memory |-> [used |->
                                              [percentages |-> [maximum |-> 40]]]]>>]>>)]

\* the CPU feed: a record with cpuCount, then one without
CpuPartialWorld ==
    [BusyWorld EXCEPT !.cpu =
        Envelope(<<[serial |-> "Q1", cpuCount |-> 2, series |-> <<[cpuLoad5 |-> 65536]>>],
                   [serial |-> "Q2", series |-> <<[cpuLoad5 |-> 65536]>>]>>)]

\* the upstream calls one fetcher thread each makes first
\* the calls that are made to raise in the full-cycle specification
RaisingFeeds == {"devices", "latency", "vpn", "usage", "status", "tags", "topology"}

\* <<upstream, COLLECT_EXTRA>> of the full-cycle specification: all calls
\* answer, or exactly one of them raises, or the CPU fetcher raises midway
CycleInputs ==
    {<<BusyWorld, {"vpn", "usage"}>>, <<BusyWorld, {}>>, <<CpuPartialWorld, {}>>}
      \cup {<<[BusyWorld EXCEPT ![f] = RaiseResp], IF f = "vpn" THEN {"vpn"} ELSE {}>> :
              f \in RaisingFeeds}

(***************************************************************************)
(* Spec: one whole get_usage call, threads interleaved in every order.     *)
(***************************************************************************)
Init ==
    /\ \E input \in CycleInputs : upstream = input[1] /\ COLLECT_EXTRA = input[2]
    /\ pc = "build"
    /\ containers = EmptyContainers
    /\ threads = <<>>
    /\ tstate = <<>>
    /\ idx = 0
    /\ networks_map = EmptyDict
    /\ the_list = EmptyDict
    /\ args = <<>>
    /\ ret = <<>>

Next ==
    \/ BuildThreads
    \/ StartThread
    \/ \E i \in DOMAIN threads : RunThread(i)
    \/ JoinThread
    \/ Merge

Spec == Init /\ [][Next]_vars

(***************************************************************************)
(* SpecMerge: the merge of get_usage, from the point where the join loop   *)
(* has returned, over a wider range of upstream data.  Its initial states  *)
(* are the states in which Spec leaves the join loop: every thread of the  *)
(* list has run its target on its container (JoinedMatchesCycle checks     *)
(* this against Spec).                                                     *)
(***************************************************************************)
\* the containers and thread states once the threads ths[i..] have all run
RECURSIVE RunAll(_, _, _, _, _)
RunAll(conts, states, ths, i, up) ==
    IF i > Len(ths) THEN [containers |-> conts, tstate |-> states]
    ELSE LET r == RunTarget(ths[i].target, conts[ths[i].arg], up)
         IN  RunAll([conts EXCEPT ![ths[i].arg] = r.slot],
                    [states EXCEPT ![i] = IF r.ok THEN "done" ELSE "failed"],
                    ths, i + 1, up)

Joined(up, collect_extra) ==
    RunAll(EmptyContainers, [i \in DOMAIN ThreadList(collect_extra) |-> "new"],
           ThreadList(collect_extra), 1, up)

\* In Spec, whatever the order in which the threads ran, get_usage leaves the
\* join loop in the state SpecMerge starts from.
JoinedMatchesCycle ==
    pc = "networks" =>
        /\ containers = Joined(upstream, COLLECT_EXTRA).containers
        /\ tstate = Joined(upstream, COLLECT_EXTRA).tstate
        /\ threads = ThreadList(COLLECT_EXTRA)
        /\ idx = Len(threads)

\* inventory x latency feed
LatencyResps == {RaiseResp, Envelope(<<>>)} \cup {Bare(l) : l \in SeqsUpTo(LatencyItems, 1)}
FamLatency ==
    {<<[DefaultWorld EXCEPT !.devices = Bare(inv), !.latency = lat], {}>> :
        inv \in InvLists, lat \in LatencyResps}

\* inventory x uplink-status feed
UplinkResps == {RaiseResp} \cup {Bare(l) : l \in SeqsUpTo(UplinkItems, 1)}
FamUplinks ==
    {<<[DefaultWorld EXCEPT !.devices = Bare(inv), !.uplinks = u], {}>> :
        inv \in InvLists, u \in UplinkResps}

\* inventory x VPN feed x VPN toggle
VpnResps == {RaiseResp} \cup {Bare(l) : l \in SeqsUpTo(VpnItems, 1)}
FamVpn ==
    {<<[DefaultWorld EXCEPT !.devices = Bare(inv), !.vpn = v], extra>> :
        inv \in InvLists, v \in VpnResps, extra \in {{}, {"vpn"}}}

\* port-usage feed (bare or envelope) x classification maps x usage toggle
UsageResps ==
    {RaiseResp} \cup {Bare(l) : l \in SeqsUpTo(UsageItems, 1)}
                \cup {Envelope(l) : l \in SeqsUpTo(UsageItems, 1)}
TagsResps == {Envelope(<<>>), Envelope(<<TagsItem("Q3", "1", {"uplink"})>>),
              Bare(<<TagsItem("Q1", "1", {"uplink", "core"})>>)}
StatusResps == {Envelope(<<>>), Envelope(<<StatusItem("Q3", "1", TxtConnectedCap),
                                           StatusItem("Q1", "1", TxtDisconnected)>>)}
TopologyResps == {Envelope(<<>>), Envelope(<<CdpItem("Q1", "1", TxtSwitchPlatform)>>),
                  Envelope(<<LldpItem("Q3", "1", TxtApName)>>)}
FamUsage ==
    {<<[DefaultWorld EXCEPT !.devices = Bare(inv), !.usage = u, !.tags = t, !.status = st,
                            !.topology = topo], extra>> :
        inv \in {<<>>, <<InvQ1>>}, u \in UsageResps, t \in TagsResps, st \in StatusResps,
        topo \in TopologyResps, extra \in {{}, {"usage"}}}

\* one record per secondary feed, over the same serials
OneOf(items) == {Bare(<<>>)} \cup {Bare(<<x>>) : x \in items}
FamCross ==
    {<<[DefaultWorld EXCEPT
          !.devices = Bare(inv),
          !.latency = lat, !.uplinks = u, !.vpn = v, !.usage = us], extra>> :
        inv \in {<<>>, <<InvQ1>>},
        lat \in OneOf({[serial |-> s, timeSeries |-> TimeSeriesOf(1)] : s \in {"Q1", "Q3"}}),
        u \in OneOf({[serial |-> s, uplinks |-> <<>>] : s \in {"Q1", "Q3"}}),
        v \in OneOf({VpnItem(s) : s \in {"Q1", "Q3"}}),
        us \in OneOf({[serial |-> s] : s \in {"Q1", "Q3"}}),
        extra \in {{}, {"vpn"}}}

\* every call answers with an empty result: an empty list, or an items
\* envelope without items where the fetcher unwraps one; the organization
\* record with or without a name
FamEmpty ==
    {<<[DefaultWorld EXCEPT
          !.org = OrgResp(org), !.usage = e, !.tags = e, !.topology = e,
          !.clients = e, !.cpu = e, !.memory = e], extra>> :
        org \in {EmptyDict, [name |-> "Org"]},
        e \in {Bare(<<>>), Envelope(<<>>)},
        extra \in SUBSET {"vpn", "usage"}}

\* inventory records for the network lookup: the identifier nested under
\* 'network', and Q1 without any identifier
InvNested == [serial |-> "Q2", network |-> [id |-> "N2"]]
InvQ1Bare == [serial |-> "Q1", name |-> "sw1"]

\* getOrganizationNetworks: raises, lists nothing, lists N1, lists N1 and N2,
\* lists N1 without a name, or answers with an envelope instead of a list
NetworksResps ==
    {RaiseResp, Bare(<<>>), Bare(<<[id |-> "N1", name |-> "Branch"]>>),
     Bare(<<[id |-> "N1", name |-> "Branch"], [id |-> "N2", name |-> "HQ"]>>),
     Bare(<<[id |-> "N1"]>>), Envelope(<<[id |-> "N1", name |-> "Branch"]>>)}

\* the network lookup against the inventory
FamNetworks ==
    {<<[DefaultWorld EXCEPT !.devices = Bare(inv), !.networks = n], {}>> :
        inv \in SeqsUpTo({InvQ1, InvNested, InvQ2, InvQ1Bare}, MaxInv), n \in NetworksResps}

\* one record of the client-count, CPU-load and memory-usage feeds
ClientsItem(s) == [serial |-> s, counts |-> [byStatus |-> [online |-> 5]]]
CpuItem(s) == [serial |-> s, cpuCount |-> 2, series |-> <<[cpuLoad5 |-> 65536]>>]
MemoryItem(s) ==
    [serial |-> s,
     intervals |-> <<[memory |-> [used |-> [percentages |-> [maximum |-> 40]]]]>>]

\* the serials a layered feed lists: none, Q1, Q3, or both
LayerSerialLists == {<<>>, <<"Q1">>, <<"Q3">>, <<"Q1", "Q3">>}

\* the three layered feeds against an inventory that holds Q1 or nothing
FamLayers ==
    {<<[DefaultWorld EXCEPT
          !.devices = Bare(inv),
          !.clients = Envelope([i \in DOMAIN cl |-> ClientsItem(cl[i])]),
          !.cpu = Envelope([i \in DOMAIN cp |-> CpuItem(cp[i])]),
          !.memory = Envelope([i \in DOMAIN me |-> MemoryItem(me[i])])], {}>> :
        inv \in {<<>>, <<InvQ1>>}, cl \in LayerSerialLists, cp \in LayerSerialLists,
        me \in LayerSerialLists}

\* the secondary feeds, each listing Q3 or nothing; the inventory holds Q1
StubFeeds == {"latency", "uplinks", "vpn", "usage", "clients", "cpu", "memory"}
StubWorld(listed) ==
    [DefaultWorld EXCEPT
        !.devices = Bare(<<InvQ1>>),
        !.latency = Bare(IF "latency" \in listed
                         THEN <<Update([serial |-> "Q3"], [timeSeries |-> TimeSeriesOf(2)])>>
                         ELSE <<>>),
        !.uplinks = Bare(IF "uplinks" \in listed
                         THEN <<[serial |-> "Q3",
                                 uplinks |-> <<[interface |-> "wan1", status |-> "active"]>>]>>
                         ELSE <<>>),
        !.vpn = Bare(IF "vpn" \in listed THEN <<VpnItem("Q3")>> ELSE <<>>),
        !.usage = Envelope(IF "usage" \in listed
                           THEN <<Update([serial |-> "Q3"],
                                         [ports |-> <<UsagePort("1", 1)>>])>>
                           ELSE <<>>),
        !.status = Envelope(<<StatusItem("Q3", "1", TxtConnectedCap)>>),
        !.tags = Envelope(<<TagsItem("Q3", "1", {"uplink"})>>),
        !.clients = Envelope(IF "clients" \in listed THEN <<ClientsItem("Q3")>> ELSE <<>>),
        !.cpu = Envelope(IF "cpu" \in listed THEN <<CpuItem("Q3")>> ELSE <<>>),
        !.memory = Envelope(IF "memory" \in listed THEN <<MemoryItem("Q3")>> ELSE <<>>)]
FamStub == {<<StubWorld(listed), {"vpn", "usage"}>> : listed \in SUBSET StubFeeds}

\* the floor plan of network N1 placing the serials of `on`, against an
\* inventory that holds Q1 or nothing and a latency feed that lists Q3 or nothing
FloorWorld(inv, on, lat) ==
    [DefaultWorld EXCEPT
        !.devices = Bare(inv),
        !.latency = Bare(lat),
        !.networks = Bare(<<[id |-> "N1", name |-> "Branch"]>>),
        !.floorplans = [n \in {"N1"} |->
                           Bare(<<[name |-> "Floor1",
                                   devices |-> [i \in DOMAIN on |-> [serial |-> on[i]]]]>>)]]
FamFloor ==
    {<<FloorWorld(inv, on, lat), {}>> :
        inv \in {<<>>, <<InvQ1>>},
        on \in {<<>>, <<"Q1">>, <<"Q3">>, <<"Q4">>, <<"Q1", "Q3", "Q4">>},
        lat \in {<<>>, <<Update([serial |-> "Q3"], [timeSeries |-> TimeSeriesOf(1)])>>}}

\* raw records with their optional parts missing: an inventory record with
\* or without optional fields, an organization with or without a name (or
\* a failed organization call), client-count and memory records of Q1 with
\* or without their counts and intervals
FamSparse ==
    {<<[DefaultWorld EXCEPT
          !.devices = Bare(<<inv>>), !.org = org,
          !.clients = Envelope(<<cl>>), !.memory = Envelope(<<me>>)], {}>> :
        inv \in {InvQ1, InvQ1Bare},
        org \in {OrgResp([name |-> "Org"]), OrgResp(EmptyDict), RaiseResp},
        cl \in {ClientsItem("Q1"), [serial |-> "Q1"]},
        me \in {MemoryItem("Q1"), [serial |-> "Q1"]}}

MergeInputs ==
    FamLatency \cup FamUplinks \cup FamVpn \cup FamUsage \cup FamCross \cup FamEmpty
      \cup FamNetworks \cup FamLayers \cup FamStub \cup FamFloor \cup FamSparse
      \cup {<<BusyWorld, {"vpn", "usage"}>>, <<CpuPartialWorld, {}>>}

InitMerge ==
    /\ \E input \in MergeInputs : upstream = input[1] /\ COLLECT_EXTRA = input[2]
    /\ pc = "networks"
    /\ containers = Joined(upstream, COLLECT_EXTRA).containers
    /\ threads = ThreadList(COLLECT_EXTRA)
    /\ tstate = Joined(upstream, COLLECT_EXTRA).tstate
    /\ idx = Len(ThreadList(COLLECT_EXTRA))
    /\ networks_map = EmptyDict
    /\ the_list = EmptyDict
    /\ args = <<>>
    /\ ret = <<>>

SpecMerge == InitMerge /\ [][Merge]_vars

(***************************************************************************)
(* is_uplink_port called on its own.  The three maps are the ones the      *)
(* fetchers build from envelope answers of the dashboard, or None (the     *)
(* parameters' default).                                                    *)
(***************************************************************************)
TxtFirewallPlatform == <<"M","e","r","a","k","i"," ","M","X","6","7">>
TxtOtherPlatform == <<"C","i","s","c","o"," ","I","O","S">>

CallSerials == {"", "Q1", "Q2"}
CallPorts == {"1", "2"}

CallTagsResps ==
    {Envelope(<<>>)}
    \cup {Envelope(<<TagsItem("Q1", "1", t)>>) :
            t \in {{"uplink"}, {"core"}, {"uplink", "core"}, {"Uplink"}}}
    \cup {Envelope(<<TagsItem("Q1", "2", {"uplink"})>>),
          Envelope(<<TagsItem("", "1", {"uplink"})>>)}

CallStatusResps ==
    {Envelope(<<>>)}
    \cup {Envelope(<<StatusItem("Q1", "1", t)>>) :
            t \in {TxtConnectedCap, TxtConnected, TxtDisconnected}}
    \cup {Envelope(<<StatusItem("Q1", "2", TxtConnectedCap)>>),
          Envelope(<<StatusItem("", "1", TxtConnectedCap)>>)}

CallTopologyResps ==
    {Envelope(<<>>)}
    \cup {Envelope(<<CdpItem("Q1", "1", t)>>) :
            t \in {TxtSwitchPlatform, TxtFirewallPlatform, TxtOtherPlatform}}
    \cup {Envelope(<<LldpItem("Q1", "1", TxtApName)>>),
          Envelope(<<CdpItem("Q1", "2", TxtSwitchPlatform)>>),
          Envelope(<<CdpItem("", "1", TxtSwitchPlatform)>>)}

CallTagsMaps ==
    {NoneMap} \cup {get_switch_ports_tags_map(EmptyDict,
                        [DefaultWorld EXCEPT !.tags = r]).slot : r \in CallTagsResps}
CallStatusMaps ==
    {NoneMap} \cup {get_switch_ports_status_map(EmptyDict,
                        [DefaultWorld EXCEPT !.status = r]).slot : r \in CallStatusResps}
CallDiscoveryMaps ==
    {NoneMap} \cup {get_switch_ports_topology_discovery(EmptyDict,
                        [DefaultWorld EXCEPT !.topology = r]).slot : r \in CallTopologyResps}

InitUplink ==
    /\ upstream = DefaultWorld
    /\ COLLECT_EXTRA = {}
    /\ pc = "call"
    /\ containers = EmptyContainers
    /\ threads = <<>>
    /\ tstate = <<>>
    /\ idx = 0
    /\ networks_map = EmptyDict
    /\ the_list = EmptyDict
    /\ \E port_id \in CallPorts, serial \in CallSerials, tags \in CallTagsMaps,
          discovery \in CallDiscoveryMaps, statuses \in CallStatusMaps :
            args = [port_id |-> port_id, serial |-> serial, port_tags_map |-> tags,
                    port_discovery_map |-> discovery, port_statuses_map |-> statuses]
    /\ ret = <<>>

CallIsUplinkPort ==
    /\ pc = "call"
    /\ ret' = << is_uplink_port(args.port_id, args.serial, args.port_tags_map,
                                args.port_discovery_map, args.port_statuses_map) >>
    /\ pc' = "called"
    /\ UNCHANGED <<upstream, COLLECT_EXTRA, containers, threads, tstate, idx,
                   networks_map, the_list, args>>

SpecUplink == InitUplink /\ [][CallIsUplinkPort]_vars

(***************************************************************************)
(* Properties of get_usage's collection cycle.                              *)
(***************************************************************************)
MergePcs ==
    {"networks", "seed", "latency", "uplinks", "vpn", "ports", "clients", "cpu",
     "memory", "returned", "raised"}

FatalTargets == {"get_switch_ports_usage", "get_switch_ports_tags_map"}

FailedTarget(target) ==
    \E i \in DOMAIN threads : threads[i].target = target /\ tstate[i] = "failed"

\* C1: no step of the merge of get_usage (the network lookup, the seeding or a
\* later pass) is taken while a launched fetcher thread is still running: once
\* get_usage is past the join loop every thread has terminated, in whatever
\* order the threads ran.
MergeAfterJoin ==
    pc \in MergePcs => /\ threads # <<>>
                       /\ \A i \in DOMAIN threads : Terminated(i)

\* the merge has seeded records while some fetchers had returned and another
\* had raised
MergeAfterJoinReached ==
    /\ pc = "latency"
    /\ the_list # EmptyDict
    /\ \E i \in DOMAIN threads : tstate[i] = "done"
    /\ \E i \in DOMAIN threads : tstate[i] = "failed"

\* C2: when the switch-port-usage fetcher or the switch-port-tags fetcher
\* failed, get_usage does not return a merged mapping.
AbortOnFatalFailure ==
    (\E target \in FatalTargets : FailedTarget(target)) => pc # "returned"

\* C3: a fetcher other than switch-port-usage and switch-port-tags that raised
\* contributes nothing: the merge reads its output container as empty, and
\* get_usage is not left by an exception.
FailedSourceContributesNothing ==
    \A i \in DOMAIN threads :
        (/\ pc \in MergePcs
         /\ tstate[i] = "failed"
         /\ threads[i].target \notin FatalTargets)
            => /\ containers[threads[i].arg] = <<>>
               /\ pc # "raised"

\* the records of a feed answered as a list or as an items envelope
FeedRecords(r) == IF r.kind \in {"bare", "envelope"} THEN r.items ELSE <<>>

\* the values records of a feed carry under `key`
SerialsIn(items, key) ==
    {items[i][key] : i \in {j \in DOMAIN items : ~IsStr(items[j]) /\ Has(items[j], key)}}

InventorySerials == SerialsIn(FeedRecords(upstream.devices), "serial")

\* every feed the merge iterates over was answered as a list of records
ListFeeds ==
    /\ upstream.devices.kind \in {"raise", "bare"}
    /\ upstream.latency.kind \in {"raise", "bare"}
    /\ upstream.uplinks.kind \in {"raise", "bare"}
    /\ upstream.vpn.kind \in {"raise", "bare"}
    /\ upstream.usage.kind \in {"raise", "bare", "envelope"}

\* C4: get_usage raises to its caller only when the switch-port-usage or the
\* switch-port-tags fetcher failed; with list-shaped feeds of any content it
\* returns a merged mapping.
RaisesOnlyOnFatalFailure ==
    (pc = "raised" /\ ListFeeds) => \E target \in FatalTargets : FailedTarget(target)

\* C5: every non-empty serial of a record of the primary inventory is a key of
\* the mapping get_usage returns (a mapping holds a key once), also when the
\* inventory lists a serial twice and whatever the other feeds contain.
InventorySerialsAreKeys ==
    pc = "returned" => \A s \in InventorySerials \ {""} : s \in DOMAIN the_list

\* get_usage returned with an inventory that lists one serial in two records
InventorySerialsAreKeysReached ==
    /\ pc = "returned"
    /\ \E i, j \in DOMAIN FeedRecords(upstream.devices) :
          /\ i # j
          /\ Has(upstream.devices.items[i], "serial")
          /\ Has(upstream.devices.items[j], "serial")
          /\ upstream.devices.items[i]["serial"] = upstream.devices.items[j]["serial"]
          /\ upstream.devices.items[i]["serial"] \in DOMAIN the_list

\* C6: every key of the mapping get_usage returns is a non-empty serial.
KeysAreNonEmptySerials ==
    pc = "returned" => "" \notin DOMAIN the_list

\* the serials the secondary feeds that create stubs refer to
LatencySerials == SerialsIn(FeedRecords(upstream.latency), "serial")
UplinkSerials == SerialsIn(FeedRecords(upstream.uplinks), "serial")
VpnSerials ==
    IF "vpn" \in COLLECT_EXTRA
    THEN SerialsIn(FeedRecords(upstream.vpn), "deviceSerial")
    ELSE {}
UsageSerials == SerialsIn(FeedRecords(upstream.usage), "serial")

\* the port-usage records that reach the merge: all of a list answer, and of an
\* items envelope those with a port that has interval data
UsageSerialsKept ==
    SerialsIn(IF upstream.usage.kind = "envelope"
              THEN SelectSeq(upstream.usage.items, HasPortData)
              ELSE FeedRecords(upstream.usage),
              "serial")

IsStub(s) == s \in DOMAIN the_list /\ Get(the_list[s], "missing data", FALSE) = TRUE

ThreadsGiven(c) == {i \in DOMAIN threads : threads[i].arg = c}

NoSharedContainer ==
    \A i, j \in DOMAIN threads : i # j => threads[i].arg # threads[j].arg

\* C8: no container is given to two threads of a cycle, and a container
\* changes only in the step of the one running thread it was given to; so no
\* two threads of a cycle write the same container.  (A fetcher is handed its
\* own container and the dashboard only, RunTarget, so it reads no other.)
OwnContainerOnly ==
    /\ []NoSharedContainer
    /\ [][\A c \in ContainerNames :
            containers'[c] # containers[c] =>
                /\ Cardinality(ThreadsGiven(c)) = 1
                /\ \E i \in ThreadsGiven(c) :
                      /\ tstate[i] = "running"
                      /\ tstate'[i] \in {"done", "failed"}
                      /\ \A j \in DOMAIN threads \ {i} : tstate'[j] = tstate[j]]_vars

\* a fetcher has filled its container while another one is still running and
\* a third has already filled its own
OwnContainerOnlyReached ==
    \E i, j, k \in DOMAIN threads :
        /\ i # j
        /\ tstate[i] = "done" /\ containers[threads[i].arg] # <<>>
        /\ tstate[j] = "done" /\ containers[threads[j].arg] # <<>>
        /\ tstate[k] = "running"

(***************************************************************************)
(* Properties of is_uplink_port.                                            *)
(***************************************************************************)
\* the discovery map records a switch or security-appliance neighbor for the
\* (serial, port) of the call
DiscoveryRecordsSwitch ==
    /\ ~IsNone(args.port_discovery_map)
    /\ args.serial \in DOMAIN args.port_discovery_map
    /\ args.port_id \in DOMAIN args.port_discovery_map[args.serial]
    /\ args.port_discovery_map[args.serial][args.port_id]["device_type"] \in {TypeMS, TypeMX}

\* the tag map lists the tag "uplink" for the (serial, port) of the call
CarriesUplinkTag ==
    /\ ~IsNone(args.port_tags_map)
    /\ args.serial \in DOMAIN args.port_tags_map
    /\ args.port_id \in DOMAIN args.port_tags_map[args.serial]
    /\ "uplink" \in args.port_tags_map[args.serial][args.port_id]

\* the status map reports the (serial, port) of the call connected, in any
\* letter case
ReportsConnected ==
    /\ ~IsNone(args.port_statuses_map)
    /\ args.serial \in DOMAIN args.port_statuses_map
    /\ args.port_id \in DOMAIN args.port_statuses_map[args.serial]
    /\ Lower(args.port_statuses_map[args.serial][args.port_id]) = TxtConnected

UplinkByTagAndStatus ==
    (ret # <<>> /\ ~DiscoveryRecordsSwitch) =>
        (ret[1] = TRUE <=> (CarriesUplinkTag /\ ReportsConnected))

\* is_uplink_port returned false for a port tagged "uplink", with no
\* discovered switch neighbor, whose status is missing from the status map
UplinkByTagAndStatusReached ==
    /\ ret = <<FALSE>>
    /\ ~DiscoveryRecordsSwitch
    /\ CarriesUplinkTag
    /\ ~IsNone(args.port_statuses_map)
    /\ args.serial \notin DOMAIN args.port_statuses_map

(***************************************************************************)
(* is_ap_device called on its own, on the discovery map that               *)
(* get_switch_ports_topology_discovery builds from one answer of the       *)
(* dashboard, or on None.                                                   *)
(***************************************************************************)
TxtApPlatform == <<"M","e","r","a","k","i"," ","M","R","4","2">>
TxtNameTwoParts == <<"M","e","r","a","k","i"," ","M","R","4","2"," ","-"," ","A","P","1">>
TxtNameThreeParts == <<"M","e","r","a","k","i"," ","M","R","4","2"," ","-"," ","F","l","o","o","r"," ","2"," ","-"," ","A","P","7">>
TxtNameOnePart == <<"M","e","r","a","k","i"," ","M","R"," ","A","P","1">>
TxtNameOverlap == <<"M","e","r","a","k","i"," ","M","R"," ","-"," ","-"," ","B">>
TxtNameOpenEnd == <<"M","e","r","a","k","i"," ","M","R","4","2"," ","-"," ">>

\* one switch with one port: a CDP platform and an LLDP system name, each
\* present or not (<<>> for not present, <<t>> for the text t)
ApItem(s, id, platform, system_name) ==
    [serial |-> s,
     ports |-> <<[portId |-> id,
                  cdp |-> IF platform = <<>> THEN <<>>
                          ELSE <<[name |-> TxtCdpPlatform, value |-> platform[1]]>>,
                  lldp |-> IF system_name = <<>> THEN <<>>
                           ELSE <<[name |-> TxtLldpSystemName, value |-> system_name[1]]>>]>>]

ApPlatforms == {<<>>, <<TxtApPlatform>>, <<TxtSwitchPlatform>>}
ApSystemNames ==
    {<<>>, << <<>> >>, <<TxtNameTwoParts>>, <<TxtNameThreeParts>>, <<TxtNameOnePart>>,
     <<TxtNameOverlap>>, <<TxtNameOpenEnd>>}

ApTopologyResps ==
    {Envelope(<<>>)} \cup {Envelope(<<ApItem("Q1", "1", p, n)>>) :
                            p \in ApPlatforms, n \in ApSystemNames}

InitAp ==
    /\ \E r \in ApTopologyResps : upstream = [DefaultWorld EXCEPT !.topology = r]
    /\ COLLECT_EXTRA = {}
    /\ pc = "call"
    /\ containers = EmptyContainers
    /\ threads = <<>>
    /\ tstate = <<>>
    /\ idx = 0
    /\ networks_map = EmptyDict
    /\ the_list = EmptyDict
    /\ \E port_id \in CallPorts, serial \in CallSerials,
          discovery \in {NoneMap,
                         get_switch_ports_topology_discovery(EmptyDict, upstream).slot} :
            args = [port_id |-> port_id, serial |-> serial,
                    port_discovery_map |-> discovery]
    /\ ret = <<>>

CallIsApDevice ==
    /\ pc = "call"
    /\ ret' = << is_ap_device(args.port_id, args.serial, args.port_discovery_map) >>
    /\ pc' = "called"
    /\ UNCHANGED <<upstream, COLLECT_EXTRA, containers, threads, tstate, idx,
                   networks_map, the_list, args>>

SpecAp == InitAp /\ [][CallIsApDevice]_vars

\* the discovery map records an access point (MR) for the (serial, port) of
\* the call
DiscoveryRecordsAp ==
    /\ ~IsNone(args.port_discovery_map)
    /\ args.serial \in DOMAIN args.port_discovery_map
    /\ args.port_id \in DOMAIN args.port_discovery_map[args.serial]
    /\ args.port_discovery_map[args.serial][args.port_id]["device_type"] = TypeMR

\* the LLDP system name the dashboard gave for the port of the call, <<>> when
\* it gave none
SystemNameInFeed ==
    LET port == upstream.topology.items[1].ports[1]
        named == {i \in DOMAIN port.lldp : port.lldp[i].name = TxtLldpSystemName}
    IN  IF named = {} THEN <<>> ELSE port.lldp[CHOOSE i \in named : TRUE].value

\* name is what follows a " - " separator of system_name up to its end, with
\* no separator in it, or all of system_name when that holds no separator
FollowsLastSeparator(name, system_name) ==
    /\ ~Contains(name, TxtSeparator)
    /\ \/ name = system_name
       \/ /\ Len(system_name) >= Len(name) + Len(TxtSeparator)
          /\ SubSeq(system_name, Len(system_name) - Len(name) + 1, Len(system_name)) = name
          /\ SubSeq(system_name, Len(system_name) - Len(name) - Len(TxtSeparator) + 1,
                    Len(system_name) - Len(name)) = TxtSeparator

TxtBarePlatform == <<"M","S","2","2","0","-","8","P">>
TxtCameraPlatform == <<"M","e","r","a","k","i"," ","M","V","2">>
TxtVendorOnly == <<"M","e","r","a","k","i">>
TxtLowerPlatform == <<"m","e","r","a","k","i"," ","m","s","2","2","0">>
TxtPlainName == <<"c","o","r","e","-","s","w"," ","M","S">>
TxtLldpSystemDescription == <<"S","y","s","t","e","m"," ","D","e","s","c","r","i","p","t","i","o","n">>

CallCdpLists ==
    {<<>>} \cup {<<[name |-> TxtCdpPlatform, value |-> p]>> :
                    p \in {TxtSwitchPlatform, TxtBarePlatform, TxtApPlatform,
                           TxtCameraPlatform, TxtVendorOnly, TxtLowerPlatform,
                           TxtOtherPlatform}}

\* the LLDP list of a port: a system name and a system description, each
\* present or not
CallLldpLists ==
    {(IF n = <<>> THEN <<>> ELSE <<[name |-> TxtLldpSystemName, value |-> n[1]]>>)
       \o (IF d = <<>> THEN <<>>
           ELSE <<[name |-> TxtLldpSystemDescription, value |-> d[1]]>>) :
        n \in {<<>>, <<TxtApName>>, <<TxtPlainName>>, <<TxtVendorOnly>>},
        d \in {<<>>, <<TxtFirewallPlatform>>, <<TxtOtherPlatform>>}}

InitMeraki ==
    /\ upstream = DefaultWorld
    /\ COLLECT_EXTRA = {}
    /\ pc = "call"
    /\ containers = EmptyContainers
    /\ threads = <<>>
    /\ tstate = <<>>
    /\ idx = 0
    /\ networks_map = EmptyDict
    /\ the_list = EmptyDict
    /\ \E cdp_list \in CallCdpLists, lldp_list \in CallLldpLists :
          args = [cdp_list |-> cdp_list, lldp_list |-> lldp_list]
    /\ ret = <<>>

CallIsMerakiDevice ==
    /\ pc = "call"
    /\ ret' = << is_meraki_device(args.cdp_list, args.lldp_list) >>
    /\ pc' = "called"
    /\ UNCHANGED <<upstream, COLLECT_EXTRA, containers, threads, tstate, idx,
                   networks_map, the_list, args>>

SpecMeraki == InitMeraki /\ [][CallIsMerakiDevice]_vars

\* the device-type codes, in their fixed order
VendorCodes == << <<"M","R">>, <<"M","S">>, <<"M","X">>, <<"M","V">>, <<"M","G">>,
                  <<"M","C">>, <<"M","V","2">>, <<"M","T">> >>

\* the first code of the fixed order found in a text that also holds the
\* vendor keyword (letter case ignored); <<>> when the text lacks either
VendorCodeIn(text) ==
    LET found == {i \in DOMAIN VendorCodes : Contains(Upper(text), VendorCodes[i])}
    IN  IF Contains(Upper(text), TxtMeraki) /\ found # {}
        THEN <<VendorCodes[CHOOSE i \in found : \A j \in found : i <= j]>>
        ELSE <<>>

\* the reference classification: the CDP platform first, then the LLDP system
\* name and system description, else no vendor device
ClassifyVendorNeighbor(cdp_list, lldp_list) ==
    LET cdp == parse_discovery_info(cdp_list)
        lldp == parse_discovery_info(lldp_list)
        by_cdp == VendorCodeIn(Get(cdp, TxtPlatform, <<>>))
        by_lldp == VendorCodeIn(Get(lldp, TxtSystemName, <<>>) \o <<" ">>
                                  \o Get(lldp, TxtSystemDescription, <<>>))
    IN  IF by_cdp # <<>> THEN [is_meraki |-> TRUE, device_type |-> by_cdp[1]]
        ELSE IF by_lldp # <<>> THEN [is_meraki |-> TRUE, device_type |-> by_lldp[1]]
        ELSE [is_meraki |-> FALSE, device_type |-> <<>>]

\* C12: is_meraki_device agrees with the reference classification for every
\* CDP and LLDP field set: a code from the CDP platform only if the platform
\* holds the vendor keyword and the code, else from the LLDP system name and
\* description only if they hold the keyword and a code, else no vendor device.
AgreesWithReference ==
    ret # <<>> => ret[1] = ClassifyVendorNeighbor(args.cdp_list, args.lldp_list)

(***************************************************************************)
(* cpu_load_calculator called on its own.  core_count is what               *)
(* device.get('cpuCount') gives: an integer, or None for a record without   *)
(* cpuCount; load_value is the cpuLoad5 of the last sample.                 *)
(***************************************************************************)
CallCoreCounts == {<<>>} \cup {<<n>> : n \in -1..MaxCores}

\* samples below, at and above the cap of each core count, and negative ones
CallLoadValues ==
    {-65536, -1, 0, 1, 327, 3072, 65536}
      \cup {98304 * n + d : n \in 1..MaxCores, d \in {-1, 0, 1}}

InitCpu ==
    /\ upstream = DefaultWorld
    /\ COLLECT_EXTRA = {}
    /\ pc = "call"
    /\ containers = EmptyContainers
    /\ threads = <<>>
    /\ tstate = <<>>
    /\ idx = 0
    /\ networks_map = EmptyDict
    /\ the_list = EmptyDict
    /\ \E core_count \in CallCoreCounts, load_value \in CallLoadValues :
          args = [core_count |-> core_count, load_value |-> load_value]
    /\ ret = <<>>

CallCpuLoadCalculator ==
    /\ pc = "call"
    /\ ret' = << cpu_load_calculator(args.core_count, args.load_value) >>
    /\ pc' = "called"
    /\ UNCHANGED <<upstream, COLLECT_EXTRA, containers, threads, tstate, idx,
                   networks_map, the_list, args>>

SpecCpu == InitCpu /\ [][CallCpuLoadCalculator]_vars

\* hundredths is raw / 65536 / cores / 1.5 * 100 rounded to 2 decimals: no
\* number of hundredths of a percent is nearer to it.  In hundredths the exact
\* value is raw * 20000 / (196608 * cores) = raw * 625 / (6144 * cores).
NearestHundredths(hundredths, raw, cores) ==
    LET den == 6144 * cores
        diff == hundredths * den - raw * 625
    IN  2 * (IF diff < 0 THEN -diff ELSE diff) <= den

\* C13: for every core count greater than 0 and every raw sample,
\* cpu_load_calculator returns min((raw / 65536) / cores, 1.5) / 1.5 * 100
\* rounded to 2 decimals: 100.0 at and above the ceiling, and the rounded
\* value linear in raw below it.
CpuLoadFormula ==
    (ret # <<>> /\ args.core_count # <<>> /\ args.core_count[1] > 0) =>
        /\ ~ret[1].raised
        /\ IF args.load_value * 2 >= 3 * 65536 * args.core_count[1]
           THEN ret[1].value = 10000
           ELSE NearestHundredths(ret[1].value, args.load_value, args.core_count[1])

\* cpu_load_calculator returned 100.0 for 4 cores at their ceiling,
\* 65536 * 4 * 1.5
CpuLoadFormulaReached ==
    /\ ret # <<>>
    /\ args.core_count = <<4>>
    /\ args.load_value = 98304 * 4
    /\ ret[1].value = 10000

\* C14: the CPU load of a device is always a defined value within 0..100:
\* 0.0 for a core count of 0 or less, and for every core count the feed can
\* supply (a record without cpuCount included) and every integer sample (a
\* negative one included) the call does not fail and returns a value from 0
\* to 100.
CpuLoadDefinedInRange ==
    ret # <<>> =>
        /\ ~ret[1].raised
        /\ ret[1].value >= 0
        /\ ret[1].value <= 10000
        /\ (args.core_count # <<>> /\ args.core_count[1] <= 0) => ret[1].value = 0

(***************************************************************************)
(* Further properties of the merge of get_usage.                            *)
(***************************************************************************)
EmptyAnswer(r) == r.kind \in {"bare", "envelope"} /\ r.items = <<>>

\* every call of the cycle answered with an empty result
EmptyAnswers ==
    /\ \A f \in {"devices", "latency", "uplinks", "vpn", "networks"} :
          upstream[f] = Bare(<<>>)
    /\ \A f \in {"usage", "tags", "topology", "clients", "cpu", "memory"} :
          EmptyAnswer(upstream[f])
    /\ upstream.status = Envelope(<<>>)
    /\ upstream.floorplans = EmptyDict
    /\ upstream.org.kind = "dict"

\* C15: when every fetcher returned an empty result, get_usage creates no
\* stub, raises no error, and the mapping it returns is empty.
EmptyFeedsGiveEmptyMapping ==
    (EmptyAnswers /\ pc \in MergePcs) =>
        /\ \A i \in DOMAIN threads : tstate[i] = "done"
        /\ pc # "raised"
        /\ the_list = EmptyDict

\* get_usage returned from a cycle in which every call, the VPN call and the
\* organization call included, answered with nothing
EmptyFeedsGiveEmptyMappingReached ==
    /\ EmptyAnswers
    /\ upstream.org.value = EmptyDict
    /\ upstream.usage.kind = "envelope"
    /\ "vpn" \in COLLECT_EXTRA
    /\ pc = "returned"
    /\ the_list = EmptyDict

\* the ports the port-usage feed lists for serial s with at least one interval
\* sample
PortsWithData(s) ==
    LET items == FeedRecords(upstream.usage)
    IN  {<<i, j>> \in UNION {{i} \X DOMAIN Get(items[i], "ports", <<>>) :
                               i \in {k \in DOMAIN items : ~IsStr(items[k])}} :
            /\ Get(items[i], "serial", <<>>) = s
            /\ Get(items[i].ports[j], "intervals", <<>>) # <<>>}

PortIdAt(ij) == PortIdOf(FeedRecords(upstream.usage)[ij[1]].ports[ij[2]])

\* port p of switch s is classified as an uplink or as access-point-attached
\* on the maps the fetchers built
ClassifiedPort(p, s) ==
    \/ is_uplink_port(p, s, containers["port_tags_map"], containers["port_discovery_map"],
                      containers["port_statuses_map"])
    \/ is_ap_device(p, s, containers["port_discovery_map"]).is_ap

\* the ports of s that have interval data and are classified
QualifyingPorts(s) ==
    {PortIdAt(ij) : ij \in {x \in PortsWithData(s) : ClassifiedPort(PortIdAt(x), s)}}

\* C16: in the mapping get_usage returns, a device's switchPortUsage has an
\* entry for port p only if the port-usage feed gives p an interval sample
\* and p is classified as uplink or access-point-attached; a device none of
\* whose ports qualifies has no switchPortUsage at all.
OnlyQualifyingPorts ==
    pc = "returned" =>
        \A s \in DOMAIN the_list :
            IF QualifyingPorts(s) = {}
            THEN ~Has(the_list[s], "switchPortUsage")
            ELSE /\ Has(the_list[s], "switchPortUsage")
                 /\ DOMAIN the_list[s]["switchPortUsage"] \subseteq QualifyingPorts(s)

\* get_usage returned a switch with an entry for a qualifying port and none
\* for another of its ports that has interval data
OnlyQualifyingPortsReached ==
    /\ pc = "returned"
    /\ \E s \in DOMAIN the_list :
          /\ Has(the_list[s], "switchPortUsage")
          /\ the_list[s]["switchPortUsage"] # EmptyDict
          /\ \E ij \in PortsWithData(s) :
                PortIdAt(ij) \notin DOMAIN the_list[s]["switchPortUsage"]

(***************************************************************************)
(* do_GET, the switchPortUsage section of the metrics page: get_usage's    *)
(* merge followed by the rendering of every port record.  A metric line    *)
(* is [metric, value]; the lines of one port record are kept in the order  *)
(* they are appended to the response.                                      *)
(***************************************************************************)
Line(metric, value) == [metric |-> metric, value |-> value]

\* appends the line when the key is in the port record
LineIf(lines, usage_data, key, metric, factor) ==
    IF Has(usage_data, key) THEN Append(lines, Line(metric, usage_data[key] * factor))
    ELSE lines

\* lines 1236-1241, 1251-1256: the names of the access-point metric lines
WirelessMetrics ==
    {"meraki_wireless_usage_total_bytes", "meraki_wireless_usage_received_bytes",
     "meraki_wireless_usage_sent_bytes", "meraki_wireless_bandwidth_total_kbps",
     "meraki_wireless_bandwidth_received_kbps", "meraki_wireless_bandwidth_sent_kbps"}

\* lines 1260-1270: the names of the switch-port metric lines
SwitchPortMetrics ==
    {"meraki_switch_port_usage_total_bytes", "meraki_switch_port_usage_upstream_bytes",
     "meraki_switch_port_usage_downstream_bytes", "meraki_switch_port_bandwidth_total_kbps",
     "meraki_switch_port_bandwidth_upstream_kbps",
     "meraki_switch_port_bandwidth_downstream_kbps"}

\* lines 1235-1256: the lines of a record that carries ap_device_name
WirelessLines(usage_data, collect_extra) ==
    LET l0 == <<>>
        l1 == IF "usage" \in collect_extra
              THEN LineIf(LineIf(LineIf(l0, usage_data, "UsageTotalBytes",
                                        "meraki_wireless_usage_total_bytes", 1024),
                                 usage_data, "UsageUpstreamBytes",
                                 "meraki_wireless_usage_received_bytes", 1024),
                          usage_data, "UsageDownstreamBytes",
                          "meraki_wireless_usage_sent_bytes", 1024)
              ELSE l0
    IN  LineIf(LineIf(LineIf(l1, usage_data, "bandwidthTotalKbps",
                             "meraki_wireless_bandwidth_total_kbps", 1),
                      usage_data, "bandwidthUpstreamKbps",
                      "meraki_wireless_bandwidth_received_kbps", 1),
               usage_data, "bandwidthDownstreamKbps",
               "meraki_wireless_bandwidth_sent_kbps", 1)

\* lines 1259-1270: the lines of a wired switch port
WiredLines(usage_data, collect_extra) ==
    LET l0 == <<>>
        l1 == IF "usage" \in collect_extra
              THEN LineIf(LineIf(LineIf(l0, usage_data, "UsageTotalBytes",
                                        "meraki_switch_port_usage_total_bytes", 1024),
                                 usage_data, "UsageUpstreamBytes",
                                 "meraki_switch_port_usage_upstream_bytes", 1024),
                          usage_data, "UsageDownstreamBytes",
                          "meraki_switch_port_usage_downstream_bytes", 1024)
              ELSE l0
    IN  LineIf(LineIf(LineIf(l1, usage_data, "bandwidthTotalKbps",
                             "meraki_switch_port_bandwidth_total_kbps", 1),
                      usage_data, "bandwidthUpstreamKbps",
                      "meraki_switch_port_bandwidth_upstream_kbps", 1),
               usage_data, "bandwidthDownstreamKbps",
               "meraki_switch_port_bandwidth_downstream_kbps", 1)

\* the body of the port loop without the continue of line 1257
SwitchPortLinesFallThrough(usage_data, collect_extra) ==
    IF Has(usage_data, "ap_device_name")
    THEN WirelessLines(usage_data, collect_extra) \o WiredLines(usage_data, collect_extra)
    ELSE WiredLines(usage_data, collect_extra)

\* lines 1229-1270: the lines one port record adds to the response
SwitchPortLines(usage_data, collect_extra) ==
    IF Has(usage_data, "ap_device_name")
    THEN WirelessLines(usage_data, collect_extra)
    ELSE WiredLines(usage_data, collect_extra)

\* lines 1228-1270: the port lines of the whole mapping, by host and port
SwitchPortSection(host_stats, collect_extra) ==
    [host \in {h \in DOMAIN host_stats : Has(host_stats[h], "switchPortUsage")} |->
        [port_id \in DOMAIN host_stats[host]["switchPortUsage"] |->
            SwitchPortLines(host_stats[host]["switchPortUsage"][port_id], collect_extra)]]

\* lines 1228-1270: do_GET renders the mapping get_usage returned
Render ==
    /\ pc = "returned"
    /\ pc' = "rendered"
    /\ ret' = <<SwitchPortSection(the_list, COLLECT_EXTRA)>>
    /\ UNCHANGED <<upstream, COLLECT_EXTRA, containers, threads, tstate, idx,
                   networks_map, the_list, args>>

SpecScrape == InitMerge /\ [][Merge \/ Render]_vars

\* the port records of the rendered mapping, as <<serial, port id>>
PortRecords ==
    UNION {{s} \X DOMAIN the_list[s]["switchPortUsage"] :
             s \in {h \in DOMAIN the_list : Has(the_list[h], "switchPortUsage")}}

PortRecord(sp) == the_list[sp[1]]["switchPortUsage"][sp[2]]

\* C17: a port record carries ap_device_name exactly when its port is
\* classified as access-point-attached, whether or not the port is an uplink
\* as well, and for a record that carries it the page holds wireless metric
\* lines only, no switch-port metric line.
ApRecordsRenderWireless ==
    pc = "rendered" =>
        \A sp \in PortRecords :
            /\ Has(PortRecord(sp), "ap_device_name")
                  <=> is_ap_device(sp[2], sp[1], containers["port_discovery_map"]).is_ap
            /\ Has(PortRecord(sp), "ap_device_name") =>
                  \A i \in DOMAIN ret[1][sp[1]][sp[2]] :
                      /\ ret[1][sp[1]][sp[2]][i].metric \in WirelessMetrics
                      /\ ret[1][sp[1]][sp[2]][i].metric \notin SwitchPortMetrics

\* the page was rendered for a port that is both an uplink and
\* access-point-attached: its record carries ap_device_name and its lines,
\* usage lines included, are wireless ones
ApRecordsRenderWirelessReached ==
    /\ pc = "rendered"
    /\ \E sp \in PortRecords :
          /\ is_ap_device(sp[2], sp[1], containers["port_discovery_map"]).is_ap
          /\ is_uplink_port(sp[2], sp[1], containers["port_tags_map"],
                            containers["port_discovery_map"], containers["port_statuses_map"])
          /\ Has(PortRecord(sp), "ap_device_name")
          /\ Len(ret[1][sp[1]][sp[2]]) = 6

\* the names the answer of getOrganizationNetworks lists for identifier id;
\* none when the call raised or did not answer with a list
NamesListed(id) ==
    IF upstream.networks.kind # "bare" THEN {}
    ELSE {upstream.networks.items[i]["name"] :
            i \in {j \in DOMAIN upstream.networks.items :
                     /\ Has(upstream.networks.items[j], "name")
                     /\ Get(upstream.networks.items[j], "id", "") = id}}

\* the inventory record that seeds serial s: the last one listing s
SeedingRecord(s) ==
    LET items == FeedRecords(upstream.devices)
    IN  items[MaxOf({i \in DOMAIN items : ~IsStr(items[i]) /\ SerialOf(items[i]) = s})]

\* the serials seeded from a record that carries a network identifier
SeededWithNetwork ==
    {s \in InventorySerials \ {""} : NetworkIdOf(SeedingRecord(s)) # ""}

\* the record of s reports the listed name of its network, or the raw
\* identifier when no name is listed
ReportsNetwork(s) ==
    LET id == NetworkIdOf(SeedingRecord(s))
    IN  /\ s \in DOMAIN the_list
        /\ Has(the_list[s], "networkName")
        /\ IF NamesListed(id) # {} THEN the_list[s]["networkName"] \in NamesListed(id)
           ELSE the_list[s]["networkName"] = id

\* C18: every device seeded with a network identifier reports the name the
\* network lookup lists for it, else the raw identifier; a failed networks
\* fetch leaves the lookup empty and get_usage goes on to the seeding, so
\* that every such device reports its raw identifier.
NetworkNameBestEffort ==
    /\ [](pc = "returned" => \A s \in SeededWithNetwork : ReportsNetwork(s))
    /\ [](upstream.networks.kind = "raise" /\ pc \in MergePcs \ {"networks"}
             => networks_map = EmptyDict)
    /\ [][pc = "networks" => pc' = "seed"]_vars

\* get_usage returned although the networks fetch raised, and a seeded
\* device reports its raw network identifier
NetworkNameBestEffortReached ==
    /\ pc = "returned"
    /\ upstream.networks.kind = "raise"
    /\ \E s \in SeededWithNetwork :
          the_list[s]["networkName"] = NetworkIdOf(SeedingRecord(s))

\* the record of the latency feed that is merged last for serial s
LatencyRecord(s) ==
    LET items == FeedRecords(upstream.latency)
    IN  items[MaxOf({i \in DOMAIN items : ~IsStr(items[i]) /\ SerialOf(items[i]) = s})]

\* C19: for every device of the latency feed, latencyMs and lossPercent of
\* its returned record are those of the last element of the device's
\* timeSeries.
LatencyOfLastSample ==
    pc = "returned" /\ upstream.latency.kind = "bare" =>
        \A s \in LatencySerials :
            /\ s \in DOMAIN the_list
            /\ Has(the_list[s], "latencyMs") /\ Has(the_list[s], "lossPercent")
            /\ LatencyRecord(s)["timeSeries"] # <<>>
            /\ the_list[s]["latencyMs"] = Last(LatencyRecord(s)["timeSeries"])["latencyMs"]
            /\ the_list[s]["lossPercent"] = Last(LatencyRecord(s)["timeSeries"])["lossPercent"]

\* get_usage returned a device whose timeSeries holds several samples that
\* differ, and the record holds the values of the last one
LatencyOfLastSampleReached ==
    /\ pc = "returned"
    /\ upstream.latency.kind = "bare"
    /\ \E s \in LatencySerials :
          LET series == LatencyRecord(s)["timeSeries"]
          IN  /\ Len(series) >= 2
              /\ Head(series)["latencyMs"] # Last(series)["latencyMs"]
              /\ Head(series)["lossPercent"] # Last(series)["lossPercent"]
              /\ the_list[s]["latencyMs"] = Last(series)["latencyMs"]
              /\ the_list[s]["lossPercent"] = Last(series)["lossPercent"]

\* the serials the client-count, CPU-load and memory-usage fetchers put out
LayerSerials ==
    DOMAIN containers["ap_clients_info"] \cup DOMAIN containers["ap_cpu_loads"]
      \cup DOMAIN containers["device_memory_usage"]

\* the serials of the feeds that seed a record or create a stub
RecordFeedSerials ==
    InventorySerials \cup LatencySerials \cup UplinkSerials \cup VpnSerials \cup UsageSerials

\* a step of the three passes leaves the key set of the mapping as it is
LayerStepKeepsKeys ==
    pc \in {"clients", "cpu", "memory"} => DOMAIN the_list' = DOMAIN the_list

\* C20: a serial that only the client-count, CPU-load or memory-usage output
\* holds is no key of the mapping get_usage returns; the three passes leave
\* the key set of the mapping as it is.
LayersCreateNoRecord ==
    /\ [](pc = "returned" => (LayerSerials \ RecordFeedSerials) \cap DOMAIN the_list = {})
    /\ [][LayerStepKeepsKeys]_vars

\* get_usage returned with the three fields layered into a device it holds,
\* while each of the three outputs holds a serial of no other feed
LayersCreateNoRecordReached ==
    /\ pc = "returned"
    /\ \E s \in DOMAIN the_list :
          /\ Has(the_list[s], "wirelessClientCount")
          /\ Has(the_list[s], "wirelessApCpuLoadPercent")
          /\ Has(the_list[s], "memoryUsedPercent")
    /\ \A c \in {"ap_clients_info", "ap_cpu_loads", "device_memory_usage"} :
          DOMAIN containers[c] \ RecordFeedSerials # {}

VpnFields == {"vpnMode", "exportedSubnets", "merakiVpnPeers", "thirdPartyVpnPeers"}

\* the serials the VPN call lists, whether or not VPN collection is enabled
VpnFeedSerials == SerialsIn(FeedRecords(upstream.vpn), "deviceSerial")

\* with VPN collection disabled the VPN step leaves the mapping as it is
VpnStepGated ==
    pc = "vpn" /\ "vpn" \notin COLLECT_EXTRA => the_list' = the_list

\* C21: with VPN collection disabled no VPN fetcher is in the thread list,
\* the VPN step changes nothing (so creates no stub), and no returned record
\* carries a VPN field; with it enabled every device of the VPN feed carries
\* the four VPN fields in the returned mapping.
VpnFollowsToggle ==
    /\ []("vpn" \notin COLLECT_EXTRA /\ pc \in MergePcs =>
             /\ \A i \in DOMAIN threads : threads[i].target # "get_vpn_statuses"
             /\ containers["vpn_statuses"] = <<>>
             /\ pc = "returned" =>
                   \A s \in DOMAIN the_list : \A f \in VpnFields : ~Has(the_list[s], f))
    /\ []("vpn" \in COLLECT_EXTRA /\ pc = "returned" =>
             \A s \in VpnFeedSerials :
                 /\ s \in DOMAIN the_list
                 /\ \A f \in VpnFields : Has(the_list[s], f))
    /\ [][VpnStepGated]_vars

\* get_usage returned with VPN collection disabled while the VPN call would
\* have listed a device of no other feed: the device is no key
VpnFollowsToggleReached ==
    /\ pc = "returned"
    /\ "vpn" \notin COLLECT_EXTRA
    /\ the_list # EmptyDict
    /\ VpnFeedSerials \ DOMAIN the_list # {}

\* the last sample of the last listing of port sp = <<serial, port id>> in the
\* port-usage feed
LatestSample(sp) ==
    LET listings == {ij \in PortsWithData(sp[1]) : PortIdAt(ij) = sp[2]}
        last == CHOOSE ij \in listings :
                    \A o \in listings : o[1] < ij[1] \/ (o[1] = ij[1] /\ o[2] <= ij[2])
    IN  Last(FeedRecords(upstream.usage)[last[1]].ports[last[2]]["intervals"])

\* sub-field leaf of sample[part]['usage'], 0 when the sample lacks it
SubField(sample, part, leaf) ==
    IF /\ Has(sample, part)
       /\ Has(sample[part], "usage")
       /\ Has(sample[part]["usage"], leaf)
    THEN sample[part]["usage"][leaf]
    ELSE 0

BandwidthFields ==
    {<<"bandwidthTotalKbps", "total">>, <<"bandwidthUpstreamKbps", "upstream">>,
     <<"bandwidthDownstreamKbps", "downstream">>}

UsageFields ==
    {<<"UsageTotalBytes", "total">>, <<"UsageUpstreamBytes", "upstream">>,
     <<"UsageDownstreamBytes", "downstream">>}

\* C22: every port record of the returned mapping carries the three
\* bandwidth fields, and the three byte-usage fields exactly when byte-usage
\* collection is enabled; each field is the sub-field of the port's last
\* interval sample, or 0 when that sample lacks it.
PortFieldsOfLastSample ==
    pc = "returned" =>
        \A sp \in PortRecords :
            /\ \A f \in BandwidthFields :
                  /\ Has(PortRecord(sp), f[1])
                  /\ PortRecord(sp)[f[1]] = SubField(LatestSample(sp), "bandwidth", f[2])
            /\ \A f \in UsageFields :
                  /\ Has(PortRecord(sp), f[1]) <=> "usage" \in COLLECT_EXTRA
                  /\ Has(PortRecord(sp), f[1]) =>
                        PortRecord(sp)[f[1]] = SubField(LatestSample(sp), "data", f[2])

\* get_usage returned, with byte-usage collection enabled, a port that has
\* several samples; its record holds the values of the last one and 0 for
\* the sub-field the sample lacks
PortFieldsOfLastSampleReached ==
    /\ pc = "returned"
    /\ "usage" \in COLLECT_EXTRA
    /\ \E sp \in PortRecords :
          /\ \E ij \in PortsWithData(sp[1]) :
                /\ PortIdAt(ij) = sp[2]
                /\ Len(FeedRecords(upstream.usage)[ij[1]].ports[ij[2]]["intervals"]) >= 2
          /\ PortRecord(sp)["UsageTotalBytes"] = LatestSample(sp)["data"]["usage"]["total"]
          /\ PortRecord(sp)["UsageTotalBytes"] # 0
          /\ ~Has(LatestSample(sp)["bandwidth"]["usage"], "downstream")
          /\ PortRecord(sp)["bandwidthDownstreamKbps"] = 0

(***************************************************************************)
(* A fetcher called on its own, on an empty container, with the dashboard  *)
(* call it makes answering a bare list, an items envelope of the same      *)
(* records, or a dict without 'items'.                                     *)
(***************************************************************************)
\* the dashboard call each fetcher makes, as the field of the upstream record
FeedOf ==
    [get_devices_and_statuses |-> "devices", get_firewall_latency |-> "latency",
     get_firewall_uplink_statuses |-> "uplinks", get_vpn_statuses |-> "vpn",
     get_switch_ports_usage |-> "usage", get_switch_ports_status_map |-> "status",
     get_switch_ports_tags_map |-> "tags",
     get_switch_ports_topology_discovery |-> "topology",
     get_wireless_ap_clients |-> "clients", get_wireless_ap_cpu_load_history |-> "cpu",
     get_device_memory_usage |-> "memory"]

\* the record lists each call is made to answer with
FetchItems(target) ==
    CASE target = "get_devices_and_statuses" -> {<<>>, <<InvQ1>>, <<InvQ1, InvQ2>>}
      [] target = "get_firewall_latency" ->
             {<<>>, <<Update([serial |-> "Q1"], [timeSeries |-> TimeSeriesOf(1)])>>}
      [] target = "get_firewall_uplink_statuses" ->
             {<<>>, <<[serial |-> "Q1",
                       uplinks |-> <<[interface |-> "wan1", status |-> "active"]>>]>>}
      [] target = "get_vpn_statuses" -> {<<>>, <<VpnItem("Q1")>>}
      [] target = "get_switch_ports_usage" ->
             {<<>>, <<Update([serial |-> "Q1"], [ports |-> <<UsagePort("1", 1)>>])>>}
      [] target = "get_switch_ports_status_map" ->
             {<<>>, <<StatusItem("Q1", "1", TxtConnectedCap)>>}
      [] target = "get_switch_ports_tags_map" ->
             {<<>>, <<TagsItem("Q1", "1", {"uplink"})>>}
      [] target = "get_switch_ports_topology_discovery" ->
             {<<>>, <<LldpItem("Q1", "2", TxtApName)>>}
      [] target = "get_wireless_ap_clients" -> {<<>>, <<ClientsItem("Q1")>>}
      [] target = "get_wireless_ap_cpu_load_history" -> {<<>>, <<CpuItem("Q1")>>}
      [] target = "get_device_memory_usage" -> {<<>>, <<MemoryItem("Q1")>>}

\* every other call answers with nothing
WorldWith(target, resp) == [DefaultWorld EXCEPT ![FeedOf[target]] = resp]

InitFetch ==
    /\ \E target \in DOMAIN FeedOf :
          \E items \in FetchItems(target) :
             \E resp \in {Bare(items), Envelope(items), OtherResp} :
                /\ upstream = WorldWith(target, resp)
                /\ args = [target |-> target, resp |-> resp]
    /\ COLLECT_EXTRA = {}
    /\ pc = "call"
    /\ containers = EmptyContainers
    /\ threads = <<>>
    /\ tstate = <<>>
    /\ idx = 0
    /\ networks_map = EmptyDict
    /\ the_list = EmptyDict
    /\ ret = <<>>

\* target(container, dashboard, organization_id) on an empty container
CallFetcher ==
    /\ pc = "call"
    /\ ret' = << RunTarget(args.target, <<>>, upstream) >>
    /\ pc' = "called"
    /\ UNCHANGED <<upstream, COLLECT_EXTRA, containers, threads, tstate, idx,
                   networks_map, the_list, args>>

SpecFetch == InitFetch /\ [][CallFetcher]_vars

\* what the fetcher leaves when the same records arrive in an items envelope
EnvelopeOutcome ==
    RunTarget(args.target, <<>>, WorldWith(args.target, Envelope(args.resp.items)))

\* C23: a fetcher leaves the same container content for a bare list as for
\* an items envelope of the same records, and for an answer of any other
\* shape it returns with the container empty.
ShapeTolerantFetchers ==
    pc = "called" =>
        /\ args.resp.kind = "bare" => ret[1] = EnvelopeOutcome
        /\ args.resp.kind = "other" => ret[1] = Done(<<>>)

(***************************************************************************)
(* Two scrapes served at the same time.  ThreadingHTTPServer runs do_GET   *)
(* of each request in a thread of its own; each do_GET builds its own      *)
(* DashboardAPI and calls get_usage, whose containers, thread list,        *)
(* networks_map and the_list are locals of that call.  The module globals  *)
(* (API_KEY, COLLECT_EXTRA) are only read.  In this specification every    *)
(* variable but COLLECT_EXTRA is a function of the scrape; the steps of    *)
(* the two scrapes interleave freely, the workers of one scrape run in the *)
(* order of its thread list (Spec explores their orders).                  *)
(***************************************************************************)
Scrapes == {1, 2}

\* a single set of containers used by every scrape
FrameOfShared(k) == 1

\* lines 683-697: the containers scrape k works on are locals of its own
\* get_usage call
FrameOf(k) == k

\* the pass of the merge that follows each pass
NextPass ==
    [seed |-> "latency", latency |-> "uplinks", uplinks |-> "vpn", vpn |-> "ports",
     ports |-> "clients", clients |-> "cpu", cpu |-> "memory", memory |-> "returned"]

\* lines 750-901: what the pass at `here` leaves of the mapping
PassResult(here, list, conts, lookup, collect_extra) ==
    CASE here = "seed" ->
             SeedPass(EmptyDict, conts["devices_and_statuses"], 1, conts["org_data"],
                      lookup, conts["devices_floor_info"])
      [] here = "latency" -> LatencyPass(list, conts["firewall_latencies"], 1)
      [] here = "uplinks" -> UplinkPass(list, conts["firewall_uplink_statuses"], 1)
      [] here = "vpn" ->
             IF "vpn" \in collect_extra THEN VpnPass(list, conts["vpn_statuses"], 1)
             ELSE Ok(list)
      [] here = "ports" ->
             PortsPass(list, conts["switch_ports_usage"], 1, collect_extra,
                       conts["port_tags_map"], conts["port_discovery_map"],
                       conts["port_statuses_map"])
      [] here = "clients" ->
             Ok(LayerPass(list, conts["ap_clients_info"], "wirelessClientCount"))
      [] here = "cpu" ->
             Ok(LayerPass(list, conts["ap_cpu_loads"], "wirelessApCpuLoadPercent"))
      [] here = "memory" ->
             Ok(LayerPass(list, conts["device_memory_usage"], "memoryUsedPercent"))

\* lines 750-908: the merge from the pass at `here` to its end
RECURSIVE MergeFrom(_, _, _, _, _)
MergeFrom(here, list, conts, lookup, collect_extra) ==
    IF here = "returned" THEN [pc |-> "returned", list |-> list]
    ELSE LET r == PassResult(here, list, conts, lookup, collect_extra)
         IN  IF r.ok THEN MergeFrom(NextPass[here], r.list, conts, lookup, collect_extra)
             ELSE [pc |-> "raised", list |-> r.list]

\* lines 672-908: get_usage run on its own against the answers `up`
Alone(up, collect_extra) ==
    MergeFrom("seed", EmptyDict, Joined(up, collect_extra).containers, NetworksMap(up),
              collect_extra)

\* In SpecMerge, get_usage ends as Alone says.
AloneMatchesMerge ==
    pc \in {"returned", "raised"} =>
        /\ pc = Alone(upstream, COLLECT_EXTRA).pc
        /\ the_list = Alone(upstream, COLLECT_EXTRA).list

\* the upstream answers given to either scrape
QuietWorld ==
    [DefaultWorld EXCEPT
        !.devices = Bare(<<InvQ2>>),
        !.latency = Bare(<<Update([serial |-> "Q3"], [timeSeries |-> TimeSeriesOf(1)])>>)]
ScrapeWorlds == {BusyWorld, CpuPartialWorld, QuietWorld}

InitConcurrent ==
    /\ upstream \in [Scrapes -> ScrapeWorlds]
    /\ COLLECT_EXTRA \in {{}, {"vpn", "usage"}}
    /\ pc = [k \in Scrapes |-> "idle"]
    /\ containers = [k \in Scrapes |-> EmptyContainers]
    /\ threads = [k \in Scrapes |-> <<>>]
    /\ tstate = [k \in Scrapes |-> <<>>]
    /\ idx = [k \in Scrapes |-> 0]
    /\ networks_map = [k \in Scrapes |-> EmptyDict]
    /\ the_list = [k \in Scrapes |-> EmptyDict]
    /\ args = <<>>
    /\ ret = <<>>

\* lines 1004-1006, 683-733: do_GET calls get_usage, which creates its
\* containers and starts its threads
BeginScrape(k) ==
    /\ pc[k] = "idle"
    /\ pc' = [pc EXCEPT ![k] = "join"]
    /\ containers' = [containers EXCEPT ![FrameOf(k)] = EmptyContainers]
    /\ threads' = [threads EXCEPT ![k] = ThreadList(COLLECT_EXTRA)]
    /\ tstate' = [tstate EXCEPT ![k] = [i \in DOMAIN ThreadList(COLLECT_EXTRA) |-> "running"]]
    /\ idx' = [idx EXCEPT ![k] = 1]
    /\ UNCHANGED <<upstream, COLLECT_EXTRA, networks_map, the_list, args, ret>>

\* the next worker of scrape k runs its target on the container it was given
RunWorker(k) ==
    /\ pc[k] = "join"
    /\ idx[k] <= Len(threads[k])
    /\ LET th == threads[k][idx[k]]
           r == RunTarget(th.target, containers[FrameOf(k)][th.arg], upstream[k])
       IN  /\ containers' = [containers EXCEPT ![FrameOf(k)][th.arg] = r.slot]
           /\ tstate' = [tstate EXCEPT ![k][idx[k]] = IF r.ok THEN "done" ELSE "failed"]
    /\ idx' = [idx EXCEPT ![k] = idx[k] + 1]
    /\ UNCHANGED <<upstream, COLLECT_EXTRA, pc, threads, networks_map, the_list, args, ret>>

\* lines 736-746: the join loop returns and the networks are looked up
JoinWorkers(k) ==
    /\ pc[k] = "join"
    /\ idx[k] > Len(threads[k])
    /\ networks_map' = [networks_map EXCEPT ![k] = NetworksMap(upstream[k])]
    /\ pc' = [pc EXCEPT ![k] = "seed"]
    /\ UNCHANGED <<upstream, COLLECT_EXTRA, containers, threads, tstate, idx, the_list,
                   args, ret>>

\* lines 750-908: one pass of the merge of scrape k
MergePass(k) ==
    /\ pc[k] \in DOMAIN NextPass
    /\ LET r == PassResult(pc[k], the_list[k], containers[FrameOf(k)], networks_map[k],
                           COLLECT_EXTRA)
       IN  /\ the_list' = [the_list EXCEPT ![k] = r.list]
           /\ pc' = [pc EXCEPT ![k] = IF r.ok THEN NextPass[pc[k]] ELSE "raised"]
    /\ UNCHANGED <<upstream, COLLECT_EXTRA, containers, threads, tstate, idx, networks_map,
                   args, ret>>

NextConcurrent ==
    \E k \in Scrapes : BeginScrape(k) \/ RunWorker(k) \/ JoinWorkers(k) \/ MergePass(k)

SpecConcurrent == InitConcurrent /\ [][NextConcurrent]_vars

\* C24: whatever the interleaving of two scrapes, each ends as get_usage
\* run alone on that scrape's upstream answers and the two toggles ends:
\* same outcome, same mapping.
ScrapesIndependent ==
    \A k \in Scrapes :
        pc[k] \in {"returned", "raised"} =>
            /\ pc[k] = Alone(upstream[k], COLLECT_EXTRA).pc
            /\ the_list[k] = Alone(upstream[k], COLLECT_EXTRA).list

\* one scrape has returned its mapping while the other, given other upstream
\* answers, is in the middle of its merge with records of other content
ScrapesIndependentReached ==
    \E k, o \in Scrapes :
        /\ pc[k] = "returned"
        /\ pc[o] = "ports"
        /\ upstream[k] # upstream[o]
        /\ the_list[k] # EmptyDict
        /\ DOMAIN the_list[o] # DOMAIN the_list[k]

\* the order of the merge passes
PassOrder ==
    {<<"networks", "seed">>, <<"seed", "latency">>, <<"latency", "uplinks">>,
     <<"uplinks", "vpn">>, <<"vpn", "ports">>, <<"ports", "clients">>,
     <<"clients", "cpu">>, <<"cpu", "memory">>, <<"memory", "returned">>}

\* a step of get_usage goes to the next pass of the order, or raises
StepFollowsPassOrder == pc' # pc => pc' = "raised" \/ <<pc, pc'>> \in PassOrder

\* the record of s holds the fields of every secondary feed that lists s
HoldsFieldsOfItsFeeds(s) ==
    /\ s \in LatencySerials => Has(the_list[s], "latencyMs") /\ Has(the_list[s], "lossPercent")
    /\ s \in UplinkSerials => Has(the_list[s], "uplinks")
    /\ s \in VpnSerials => \A f \in VpnFields : Has(the_list[s], f)
    /\ QualifyingPorts(s) # {} => Has(the_list[s], "switchPortUsage")
    /\ s \in DOMAIN containers["ap_clients_info"] => Has(the_list[s], "wirelessClientCount")
    /\ s \in DOMAIN containers["ap_cpu_loads"] => Has(the_list[s], "wirelessApCpuLoadPercent")
    /\ s \in DOMAIN containers["device_memory_usage"] => Has(the_list[s], "memoryUsedPercent")

\* C25: the merge passes run in the order seeding, latency, uplink status,
\* VPN, port usage, client counts, CPU load, memory; a serial that is absent
\* from the inventory and listed by secondary feeds ends with a record that
\* keeps the missing-data flag and holds the fields of all the feeds that
\* list it, the client-count, CPU-load and memory values included.
StubReusedInPassOrder ==
    /\ [](pc = "returned" =>
             \A s \in DOMAIN the_list \ InventorySerials :
                 IsStub(s) /\ HoldsFieldsOfItsFeeds(s))
    /\ [][StepFollowsPassOrder]_vars

\* get_usage returned a flagged record of a serial that the inventory does
\* not hold and that all seven secondary feeds list, with all their fields
StubReusedInPassOrderReached ==
    /\ pc = "returned"
    /\ \E s \in DOMAIN the_list \ InventorySerials :
          /\ IsStub(s)
          /\ s \in LatencySerials \cap UplinkSerials \cap VpnSerials
          /\ QualifyingPorts(s) # {}
          /\ s \in DOMAIN containers["ap_clients_info"]
          /\ s \in DOMAIN containers["ap_cpu_loads"]
          /\ s \in DOMAIN containers["device_memory_usage"]
          /\ HoldsFieldsOfItsFeeds(s)

\* the serials the floor-plan fetcher put out
FloorSerials == DOMAIN containers["devices_floor_info"]

\* C26: at every point of the merge a record carries a floor name only if
\* its serial is in the inventory and in the floor-plan output; a record
\* flagged as missing data carries none; a serial that only the floor-plan
\* output holds is no key of the mapping.
FloorNameOnlyWhenSeeded ==
    pc \in MergePcs =>
        /\ \A s \in DOMAIN the_list :
              /\ Has(the_list[s], "floor_name") =>
                    s \in InventorySerials /\ s \in FloorSerials
              /\ IsStub(s) => ~Has(the_list[s], "floor_name")
        /\ (FloorSerials \ (RecordFeedSerials \cup LayerSerials)) \cap DOMAIN the_list = {}

\* get_usage returned a seeded device with its floor name, a flagged record
\* without one although the floor plans list its serial, and no record for a
\* serial that only the floor plans list
FloorNameOnlyWhenSeededReached ==
    /\ pc = "returned"
    /\ \E s \in DOMAIN the_list : Has(the_list[s], "floor_name")
    /\ \E s \in DOMAIN the_list \cap FloorSerials : IsStub(s)
    /\ FloorSerials \ (RecordFeedSerials \cup LayerSerials) # {}

(***************************************************************************)
(* Progress of a collection cycle.  get_usage itself keeps going: its      *)
(* start loop, its join loop (whenever the joined thread has terminated)   *)
(* and its merge are fair.  Nothing is assumed of the fetcher threads: a   *)
(* started thread may run its target to the end, or hang in its upstream   *)
(* call forever.                                                           *)
(***************************************************************************)
InitLive ==
    /\ upstream \in {BusyWorld, [BusyWorld EXCEPT !.latency = Bare(<<[serial |-> "Q3"]>>)]}
    /\ COLLECT_EXTRA = {}
    /\ pc = "build"
    /\ containers = EmptyContainers
    /\ threads = <<>>
    /\ tstate = <<>>
    /\ idx = 0
    /\ networks_map = EmptyDict
    /\ the_list = EmptyDict
    /\ args = <<>>
    /\ ret = <<>>

SpecLive ==
    InitLive /\ [][Next]_vars /\ WF_vars(BuildThreads \/ StartThread \/ JoinThread \/ Merge)

\* the thread list is not built yet, or one of its threads has not terminated
SomeThreadUnterminated ==
    pc = "build" \/ \E i \in DOMAIN tstate : ~Terminated(i)

\* get_usage is over: it returned its mapping or an exception left it
CycleOver == pc \in {"returned", "raised"}

\* C27: while a fetcher thread has not terminated get_usage is not in its
\* merge and has not returned, so when some fetcher thread never terminates
\* get_usage never starts the merge and never returns; when every fetcher
\* thread terminates, get_usage eventually returns or raises.
NoTimeoutInCycle ==
    /\ [](SomeThreadUnterminated => pc \notin MergePcs)
    /\ []SomeThreadUnterminated => [](pc \notin MergePcs)
    /\ <>[](~SomeThreadUnterminated) => <>CycleOver

\* get_usage waits in its join loop for the one thread that has not
\* terminated, every other thread having finished
NoTimeoutInCycleReached ==
    /\ pc = "join"
    /\ Cardinality({i \in DOMAIN tstate : ~Terminated(i)}) = 1
    /\ ~Terminated(idx)

\* the last record of serial s in the answer r, when there is one
RawRecords(r, s) ==
    {i \in DOMAIN FeedRecords(r) :
        ~IsStr(FeedRecords(r)[i]) /\ SerialOf(FeedRecords(r)[i]) = s}
RawRecord(r, s) == FeedRecords(r)[MaxOf(RawRecords(r, s))]

\* the raw client-count record of s gives an online count
RawOnlineCount(s) ==
    /\ RawRecords(upstream.clients, s) # {}
    /\ Has(Get(Get(RawRecord(upstream.clients, s), "counts", EmptyDict),
               "byStatus", EmptyDict), "online")

\* the raw memory record of s gives a maximum percentage in its last interval
RawMemoryMaximum(s) ==
    /\ RawRecords(upstream.memory, s) # {}
    /\ Get(RawRecord(upstream.memory, s), "intervals", <<>>) # <<>>
    /\ Has(Get(Get(Get(Last(RawRecord(upstream.memory, s)["intervals"]),
                       "memory", EmptyDict), "used", EmptyDict),
               "percentages", EmptyDict), "maximum")

\* the fields the seeding copies from the inventory record under their own name
CopiedFields == {"mac", "status", "productType", "wan1Ip", "wan2Ip", "lanIp", "publicIp"}

\* C28 as stated: a field of a returned record whose raw source is missing
\* is absent from the record: orgName when the organization gave no name,
\* wirelessClientCount when the raw record has no online count,
\* memoryUsedPercent when the raw record has no maximum percentage, and the
\* mac, status, product type and IP fields when the inventory record lacks
\* them.
MissingFieldsOmitted ==
    pc = "returned" =>
        \A s \in DOMAIN the_list :
            /\ Has(the_list[s], "orgName") =>
                  upstream.org.kind = "dict" /\ Has(upstream.org.value, "name")
            /\ Has(the_list[s], "wirelessClientCount") => RawOnlineCount(s)
            /\ Has(the_list[s], "memoryUsedPercent") => RawMemoryMaximum(s)
            /\ \A f \in CopiedFields :
                  Has(the_list[s], f) =>
                      /\ s \in InventorySerials
                      /\ Has(SeedingRecord(s), f)

\* the serials some secondary feed that creates stubs refers to
SecondarySerials == LatencySerials \cup UplinkSerials \cup VpnSerials \cup UsageSerialsKept

\* C29: at every point of the merge, a record that carries the missing-data
\* flag has a serial that no record of the primary inventory holds; a record
\* seeded from the inventory carries no flag, whichever secondary feeds
\* refer to it.
FlagOnlyOutsideInventory ==
    pc \in MergePcs =>
        \A s \in DOMAIN the_list :
            /\ IsStub(s) => s \notin InventorySerials \ {""}
            /\ s \in InventorySerials \ {""} => ~Has(the_list[s], "missing data")

\* get_usage returned the unflagged record of an inventory serial that the
\* latency, uplink-status and port-usage feeds refer to, next to a flagged
\* record of another serial
FlagOnlyOutsideInventoryReached ==
    /\ pc = "returned"
    /\ \E s \in InventorySerials \ {""} :
          /\ s \in DOMAIN the_list
          /\ s \in LatencySerials \cap UplinkSerials \cap UsageSerialsKept
          /\ Has(the_list[s], "latencyMs")
          /\ ~IsStub(s)
    /\ \E o \in SecondarySerials : IsStub(o)

\* the fields the seeding pass writes
SeededFields ==
    {"orgName", "name", "model", "mac", "networkName", "status", "productType",
     "floor_name", "wan1Ip", "wan2Ip", "lanIp", "publicIp", "usingCellularFailover"}

\* the passes after the seeding, and the fields each of them writes
LaterPasses == {"latency", "uplinks", "vpn", "ports", "clients", "cpu", "memory"}

OwnFields(pass) ==
    CASE pass = "latency" -> {"latencyMs", "lossPercent"}
      [] pass = "uplinks" -> {"uplinks"}
      [] pass = "vpn" -> VpnFields
      [] pass = "ports" -> {"switchPortUsage"}
      [] pass = "clients" -> {"wirelessClientCount"}
      [] pass = "cpu" -> {"wirelessApCpuLoadPercent"}
      [] pass = "memory" -> {"memoryUsedPercent"}
      [] OTHER -> {}

\* a step of a later pass keeps every key, keeps every field of every record
\* that is not one of its own, adds only its own fields to a record, and
\* creates only records made of the flag and its own fields
LaterPassOnlyAdds ==
    pc \in LaterPasses =>
        /\ DOMAIN the_list \subseteq DOMAIN the_list'
        /\ \A s \in DOMAIN the_list :
              /\ \A f \in DOMAIN the_list[s] \ OwnFields(pc) :
                    Has(the_list'[s], f) /\ the_list'[s][f] = the_list[s][f]
              /\ \A f \in SeededFields \cap DOMAIN the_list[s] :
                    Has(the_list'[s], f) /\ the_list'[s][f] = the_list[s][f]
              /\ DOMAIN the_list'[s] \ DOMAIN the_list[s] \subseteq OwnFields(pc)
        /\ \A s \in DOMAIN the_list' \ DOMAIN the_list :
              DOMAIN the_list'[s] \subseteq OwnFields(pc) \cup {"missing data"}

\* C30: after the seeding pass the merge only grows the mapping: no later
\* pass removes a key, none removes or changes a field the seeding pass wrote
\* (nor a field of another pass), and each later pass writes only its own
\* fields; no pass writes a field of the seeding under its own name.
LaterPassesOnlyGrow ==
    /\ [](\A pass \in LaterPasses : OwnFields(pass) \cap SeededFields = {})
    /\ [][LaterPassOnlyAdds]_vars

\* get_usage returned a seeded record that holds its seeded fields next to
\* the fields of the port-usage, client-count and memory passes, another
\* that holds them next to the fields of the latency and uplink-status
\* passes, and a key that a later pass added
LaterPassesOnlyGrowReached ==
    /\ pc = "returned"
    /\ \E s \in InventorySerials \cap DOMAIN the_list :
          /\ {"orgName", "name", "mac", "status"} \subseteq DOMAIN the_list[s]
          /\ the_list[s]["mac"] = SeedingRecord(s)["mac"]
          /\ {"switchPortUsage", "wirelessClientCount", "memoryUsedPercent"}
                \subseteq DOMAIN the_list[s]
    /\ \E s \in InventorySerials \cap DOMAIN the_list :
          /\ {"orgName", "name", "productType"} \subseteq DOMAIN the_list[s]
          /\ the_list[s]["productType"] = SeedingRecord(s)["productType"]
          /\ {"latencyMs", "lossPercent", "uplinks"} \subseteq DOMAIN the_list[s]
    /\ DOMAIN the_list \ InventorySerials # {}

=============================================================================
